---- MODULE Spec2Model ----
(***************************************************************************)
(* The mod-settings codec of belt (src/src/core/settings.rs): the          *)
(* PropertyTree binary encoding, its decoder, and the ModSettings value    *)
(* that is loaded from a file, mutated with set and saved again.           *)
(*                                                                         *)
(* Representation.                                                         *)
(*   byte            an integer 0..255                                     *)
(*   Vec<u8>, &[u8]  a sequence of bytes                                   *)
(*   String, &str    the sequence of its UTF-8 bytes                       *)
(*   u32             [hi, lo], its two 16-bit halves                       *)
(*   i64, u64, f64   the 8 bytes of the 64-bit pattern, most significant   *)
(*                   first (the integers of TLC are 32 bits wide)          *)
(*   enum value      <<variant name, payload>>                             *)
(*   HashMap<K, V>   a set of <<key, value>> entries; the order in which   *)
(*                   it is iterated is not fixed by the program            *)
(*   io::Result<T>   [st, val, pos]: st is "Ok", "Err", "Panic" or "Abort" *)
(*                   and pos the number of bytes the reader has consumed   *)
(***************************************************************************)
EXTENDS Integers, Sequences, FiniteSets, TLC

\* ---------------------------------------------------------------- bounds
\* Longest List / largest Dictionary of the trees that are enumerated.
MaxLen == 2
\* Levels of single-child List / Dictionary nesting put around those trees.
MaxDepth == 1
\* Number of set calls between a load and the next load.
MaxSets == 2
\* Iteration orders of a HashMap that are told apart by the codec runs
\* (seeds 0 .. MaxSeed) and by the saves and loads of a settings file
\* (seeds 0 .. MaxFileSeed).
MaxSeed == 5
MaxFileSeed == 1
\* 65536-element blocks beyond which an allocation is refused unless the
\* system overcommits memory (32768 blocks = 2^31 elements of 56 bytes).
AllocLimitHi == 32768
\* Lengths from 0 to MaxPacked are given to the packed encoding.
MaxPacked == 300
\* Most save files or blueprint files of one command.
MaxJobs == 2
\* Most save files given to the benchmark schedule, and most runs of each.
MaxFiles == 2
MaxRuns == 2
\* The count of one-second sleeps of a polling loop stops at this number.
MaxPolls == 2

\* ------------------------------------------------------- sequence helpers
Byte == 0 .. 255

RECURSIVE Reverse(_)
Reverse(s) == IF s = <<>> THEN <<>> ELSE Append(Reverse(Tail(s)), Head(s))

RECURSIVE SetToSeq(_)
\* The elements of a finite set in one fixed order.
SetToSeq(S) ==
  IF S = {} THEN <<>>
  ELSE LET x == CHOOSE y \in S : TRUE IN <<x>> \o SetToSeq(S \ {x})

Rotate(s, n) ==
  IF s = <<>> THEN s
  ELSE LET k == n % Len(s) IN SubSeq(s, k + 1, Len(s)) \o SubSeq(s, 1, k)

\* ------------------------------------------------------------ integers
\* usize -> u32 (`as u32`), for values TLC's integers can hold.
AsU32(n) == [hi |-> (n \div 65536) % 65536, lo |-> n % 65536]

\* i < c, for a u32 c and a natural number i below 2^31.
U32Gt(c, i) == c.hi >= 32768 \/ c.hi * 65536 + c.lo > i

\* u32::to_le_bytes
U32ToLeBytes(c) ==
  <<c.lo % 256, c.lo \div 256, c.hi % 256, c.hi \div 256>>

\* u32::from_le_bytes
U32FromLeBytes(b) == [hi |-> b[3] + 256 * b[4], lo |-> b[1] + 256 * b[2]]

\* The i64 with value n (two's complement), for -2^31 < n < 2^31.
I64(n) ==
  LET ext == IF n < 0 THEN 255 ELSE 0
  IN  <<ext, ext, ext, ext,
        (n \div 16777216) % 256, (n \div 65536) % 256,
        (n \div 256) % 256, n % 256>>

\* The u64 with value n, for 0 <= n < 2^31.
U64(n) == I64(n)

\* f64 values by their IEEE-754 bit patterns.
F64Zero    == <<0, 0, 0, 0, 0, 0, 0, 0>>
F64NegZero == <<128, 0, 0, 0, 0, 0, 0, 0>>
F64OnePt5  == <<63, 248, 0, 0, 0, 0, 0, 0>>
F64Half    == <<63, 224, 0, 0, 0, 0, 0, 0>>
F64NaN     == <<127, 248, 0, 0, 0, 0, 0, 0>>

\* f64::is_nan: exponent all ones and a non-zero mantissa.
F64IsNaN(x) ==
  /\ x[1] % 128 = 127
  /\ x[2] >= 240
  /\ \/ x[2] % 16 # 0
     \/ \E i \in 3 .. 8 : x[i] # 0

F64IsZero(x) == x[1] % 128 = 0 /\ \A i \in 2 .. 8 : x[i] = 0

\* f64's PartialEq (IEEE-754): NaN equals nothing, +0 equals -0.
F64Eq(x, y) ==
  /\ ~F64IsNaN(x)
  /\ ~F64IsNaN(y)
  /\ (x = y \/ (F64IsZero(x) /\ F64IsZero(y)))

\* Mutant: the bytes are written most significant first (to_be_bytes).
ToLeBytes8_BigEndian(x) == x

\* {i64,u64,f64}::to_le_bytes and from_le_bytes.
ToLeBytes8(x) == Reverse(x)
FromLeBytes8(b) == Reverse(b)

\* ------------------------------------------------------------- strings
\* "startup", "runtime-global", "runtime-per-user", "value", "r", "g", "b", "a"
StrStartup == <<115, 116, 97, 114, 116, 117, 112>>
StrRuntimeGlobal ==
  <<114, 117, 110, 116, 105, 109, 101, 45, 103, 108, 111, 98, 97, 108>>
StrRuntimePerUser ==
  <<114, 117, 110, 116, 105, 109, 101, 45, 112, 101, 114, 45, 117, 115, 101, 114>>
StrValue == <<118, 97, 108, 117, 101>>
StrR == <<114>>
StrG == <<103>>
StrB == <<98>>
StrA == <<97>>
StrEmpty == <<>>

\* String::from_utf8 accepts exactly the well-formed UTF-8 byte sequences:
\* every byte that is no continuation byte starts a character of the width
\* its value gives, followed by that many continuation bytes and no more.
Utf8Valid(s) ==
  LET n == Len(s)
      Cont(i) == i <= n /\ s[i] >= 128 /\ s[i] <= 191
      Width(b) == IF b < 128 THEN 1
                  ELSE IF b >= 194 /\ b <= 223 THEN 2
                  ELSE IF b >= 224 /\ b <= 239 THEN 3
                  ELSE IF b >= 240 /\ b <= 244 THEN 4
                  ELSE 0
  IN  \A i \in 1 .. n :
        IF Cont(i) THEN i > 1
        ELSE /\ Width(s[i]) > 0
             /\ \A j \in i + 1 .. i + Width(s[i]) - 1 : Cont(j)
             /\ ~Cont(i + Width(s[i]))
             /\ (s[i] = 224 => s[i + 1] >= 160)
             /\ (s[i] = 237 => s[i + 1] <= 159)
             /\ (s[i] = 240 => s[i + 1] >= 144)
             /\ (s[i] = 244 => s[i + 1] <= 143)

\* ------------------------------------------------------ PropertyTreeData
PtNone == <<"None", <<>>>>
PtBool(v) == <<"Bool", v>>
PtNumber(v) == <<"Number", v>>
PtString(v) == <<"String", v>>
PtList(v) == <<"List", v>>
PtDictionary(v) == <<"Dictionary", v>>
PtSignedInteger(v) == <<"SignedInteger", v>>
PtUnsignedInteger(v) == <<"UnsignedInteger", v>>

\* `tree_type as u8`
TypeAsU8(t) ==
  CASE t = "None" -> 0
    [] t = "Bool" -> 1
    [] t = "Number" -> 2
    [] t = "String" -> 3
    [] t = "List" -> 4
    [] t = "Dictionary" -> 5
    [] t = "SignedInteger" -> 6
    [] t = "UnsignedInteger" -> 7

\* impl From<u8> for PropertyTreeType; the last arm panics.
PropertyTreeTypeFrom(value) ==
  CASE value = 0 -> "None"
    [] value = 1 -> "Bool"
    [] value = 2 -> "Number"
    [] value = 3 -> "String"
    [] value = 4 -> "List"
    [] value = 5 -> "Dictionary"
    [] value = 6 -> "SignedInteger"
    [] value = 7 -> "UnsignedInteger"
    [] OTHER -> "panic"

\* ---------------------------------------------------------------- HashMap
HashMapKeys(m) == {e[1] : e \in m}
HashMapContains(m, k) == \E e \in m : e[1] = k
\* HashMap::get: <<"Some", v>> or <<"None">>.
HashMapGet(m, k) ==
  IF HashMapContains(m, k)
    THEN <<"Some", (CHOOSE e \in m : e[1] = k)[2]>>
    ELSE <<"None">>
\* HashMap::insert replaces the entry of an equal key.
HashMapInsert(m, k, v) == {e \in m : e[1] # k} \cup {<<k, v>>}
HashMapRemove(m, k) == {e \in m : e[1] # k}
\* The entries in the order one iteration visits them; the order depends on
\* the map's hasher state, which `seed` stands for.
HashMapIter(m, seed) ==
  LET s == SetToSeq(m)
      n == Len(s)
      r == IF n = 0 THEN s ELSE Rotate(s, seed % n)
  IN  IF n > 0 /\ (seed \div n) % 2 = 1 THEN Reverse(r) ELSE r

\* ----------------------------------------------------------------- encoder
\* The length that save_string pushes after the flag byte: one byte, or 255
\* and `len as u32` in little-endian order.
save_string_len(len) ==
  IF len < 255 THEN <<len>>
  ELSE <<255>> \o U32ToLeBytes(AsU32(len))

\* fn save_string
save_string(s) ==
  IF s = <<>> THEN <<1>>
  ELSE
    LET result == <<0>>
    IN  result \o save_string_len(Len(s)) \o s

\* fn type_tag
type_tag(tree_type) == <<TypeAsU8(tree_type), 0>>

RECURSIVE save_ptree(_, _)
RECURSIVE save_list_items(_, _)
RECURSIVE save_dict_items(_, _)

\* The body of `for value in values` of the List arm.
save_list_items(values, seed) ==
  IF values = <<>> THEN <<>>
  ELSE save_string(StrEmpty) \o save_ptree(Head(values), seed)
         \o save_list_items(Tail(values), seed)

\* The body of `for (key, value) in dict` of the Dictionary arm, over the
\* entries in iteration order.
save_dict_items(entries, seed) ==
  IF entries = <<>> THEN <<>>
  ELSE save_string(Head(entries)[1]) \o save_ptree(Head(entries)[2], seed)
         \o save_dict_items(Tail(entries), seed)

\* fn save_ptree; `seed` fixes the iteration order of the HashMaps.
save_ptree(tree, seed) ==
  LET t == tree[1]
      v == tree[2]
  IN  CASE t = "String" -> type_tag("String") \o save_string(v)
        [] t = "Bool" -> type_tag("Bool") \o <<IF v THEN 1 ELSE 0>>
        [] t = "Number" -> type_tag("Number") \o ToLeBytes8(v)
        [] t = "SignedInteger" -> type_tag("SignedInteger") \o ToLeBytes8(v)
        [] t = "UnsignedInteger" -> type_tag("UnsignedInteger") \o ToLeBytes8(v)
        [] t = "None" -> type_tag("None")
        [] t = "List" ->
             type_tag("List") \o U32ToLeBytes(AsU32(Len(v)))
               \o save_list_items(v, seed)
        [] t = "Dictionary" ->
             type_tag("Dictionary") \o U32ToLeBytes(AsU32(Cardinality(v)))
               \o save_dict_items(HashMapIter(v, seed), seed)

\* ------------------------------------------------------------ BufferStream
Ok(v, p) == [st |-> "Ok", val |-> v, pos |-> p]
Err(kind, msg, arg, p) ==
  [st |-> "Err", val |-> [kind |-> kind, msg |-> msg, arg |-> arg], pos |-> p]
Panic(msg, arg, p) ==
  [st |-> "Panic", val |-> [kind |-> "panic", msg |-> msg, arg |-> arg], pos |-> p]
\* handle_alloc_error: the process is aborted.
Abort(p) ==
  [st |-> "Abort", val |-> [kind |-> "abort", msg |-> "memory allocation failed",
                             arg |-> <<>>], pos |-> p]
IsOk(r) == r.st = "Ok"
\* What the caller keeps of a result: Ok(value) or the error.
Returned(r) == [st |-> r.st, val |-> r.val]

\* Read::read_exact of n bytes at pos (n a natural number).
read_exact(b, pos, n) ==
  IF pos + n <= Len(b) THEN Ok(SubSeq(b, pos + 1, pos + n), pos + n)
  ELSE Err("UnexpectedEof", "failed to fill whole buffer", <<>>, Len(b))

read_u8(b, pos) ==
  LET r == read_exact(b, pos, 1)
  IN  IF IsOk(r) THEN Ok(r.val[1], r.pos) ELSE r

read_u32_le(b, pos) ==
  LET r == read_exact(b, pos, 4)
  IN  IF IsOk(r) THEN Ok(U32FromLeBytes(r.val), r.pos) ELSE r

\* read_i64_le, read_u64_le and read_f64_le
read_8_le(b, pos) ==
  LET r == read_exact(b, pos, 8)
  IN  IF IsOk(r) THEN Ok(FromLeBytes8(r.val), r.pos) ELSE r

\* Mutant: the byte 255 is taken as a value.
read_packed_uint_8_32_NoLongForm(b, pos) ==
  LET first == read_u8(b, pos)
  IN  IF ~IsOk(first) THEN first
      ELSE Ok(AsU32(first.val), first.pos)

read_packed_uint_8_32(b, pos) ==
  LET first == read_u8(b, pos)
  IN  IF ~IsOk(first) THEN first
      ELSE IF first.val < 255 THEN Ok(AsU32(first.val), first.pos)
      ELSE read_u32_le(b, first.pos)

read_string(b, pos, size) ==
  IF U32Gt(size, Len(b))
    THEN Err("UnexpectedEof", "failed to fill whole buffer", <<>>, Len(b))
  ELSE
    LET r == read_exact(b, pos, size.hi * 65536 + size.lo)
    IN  IF ~IsOk(r) THEN r
        ELSE IF Utf8Valid(r.val) THEN r
        ELSE Err("InvalidData", "invalid utf-8 sequence", <<>>, r.pos)

\* Mutant: only the flag byte 1 stands for the empty string.
read_ptree_string_FlagOne(b, pos) ==
  LET flag == read_u8(b, pos)
  IN  IF ~IsOk(flag) THEN flag
      ELSE IF flag.val = 1 THEN Ok(StrEmpty, flag.pos)
      ELSE LET size == read_packed_uint_8_32(b, flag.pos)
           IN  IF ~IsOk(size) THEN size
               ELSE read_string(b, size.pos, size.val)

\* fn read_ptree_string
read_ptree_string(b, pos) ==
  LET flag == read_u8(b, pos)
  IN  IF ~IsOk(flag) THEN flag
      ELSE IF flag.val # 0 THEN Ok(StrEmpty, flag.pos)
      ELSE LET size == read_packed_uint_8_32(b, flag.pos)
           IN  IF ~IsOk(size) THEN size
               ELSE read_string(b, size.pos, size.val)

\* ------------------------------------------------------------------ state
VARIABLES
  file,        \* the bytes of the settings file on disk
  ms,          \* the caller's ModSettings: <<"None">> or <<"Some", value>>
  loaded,      \* what the last load_from_file returned (st, val)
  orig,        \* history: the ModSettings the first load returned
  call,        \* the arguments of the last set: <<scope, key, value>>
  ret,         \* what the last set returned
  lastSet,     \* history: the latest set on each (scope, key) since the load
  nsets,       \* number of set calls since the load
  pc,          \* position of the caller in load / set / save / reload
  tree,        \* codec: the tree given to save_ptree
  bytes,       \* codec: the buffer given to load_ptree
  how,         \* codec: how the buffer was made
  cpc,         \* codec: position in encode / damage / decode / re-encode
  res,         \* codec: what load_ptree returned
  reenc,       \* codec: save_ptree of the decoded tree
  overcommit,  \* whether the allocator grants requests of any size
  num,         \* strings: the length given to the packed encoding
  str,         \* strings: the string given to save_string
  stail,       \* strings: the bytes that follow in the buffer
  sbuf,        \* strings: the buffer given to the readers
  sres,        \* strings: what the reader returned
  spc,         \* strings: position in encode / read
  seen,        \* loader: an earlier file that failed to load, and its error
  config_file, \* configuration: the TOML file, <<"None">> when there is none
  env,         \* configuration: the BELT_* environment variables
  cli,         \* configuration: the parsed command line
  figment,     \* configuration: what main built from the file and env
  benchmark_config, \* configuration: the BenchmarkConfig of main
  mpc,         \* configuration: position in main
  jcfg,        \* jobs: the command and its configuration
  job,         \* jobs: the number of the file being handled, 0 before the first
  dir,         \* jobs: history, the jobs that had a mods directory
  jpc,         \* jobs: position in run / run_all
  events,      \* jobs: history of the calls made, each with its job number
  running,     \* jobs: the flag CTRL+C clears
  bench,       \* schedule: run_order, runs and the save files
  schedule,    \* schedule: the Vec<ExecutionJob> being built
  iter,        \* schedule: the loop indices and the position in the function
  fn,          \* executor: the function called, and its position
  child,       \* executor: the Factorio child process
  new_save,    \* executor: whether the expected save file exists
  did_kill,    \* executor: the local did_kill of run_for_blueprint
  fret         \* executor: what the function returned

strVars == <<num, str, stail, sbuf, sres, spc>>
\* The variables of the parts other than the settings file and the tree codec.
cfgVars == <<config_file, env, cli, figment, benchmark_config, mpc>>
jobVars == <<jcfg, job, dir, jpc, events, running>>
benchVars == <<bench, schedule, iter>>
procVars == <<fn, child, new_save, did_kill, fret>>
runVars == <<benchVars, procVars>>
extVars == <<cfgVars, jobVars, runVars>>
restVars == <<strVars, seen, extVars>>
vars == <<file, ms, loaded, orig, call, ret, lastSet, nsets, pc,
          tree, bytes, how, cpc, res, reenc, overcommit, restVars>>

\* The string readers and writers are not exercised.
StrIdle ==
  /\ num = 0
  /\ str = <<>>
  /\ stail = <<>>
  /\ sbuf = <<>>
  /\ sres = [st |-> "", val |-> <<>>, pos |-> 0]
  /\ spc = "idle"
\* main is not exercised.
CfgIdle ==
  /\ config_file = <<"None">>
  /\ env = {}
  /\ cli = [config |-> <<"None">>, ticks |-> <<"None">>, runs |-> <<"None">>]
  /\ figment = {}
  /\ benchmark_config = <<"None">>
  /\ mpc = "idle"
\* No command is running.
JobIdle ==
  /\ jcfg = [cmd |-> "none", mods_dir |-> FALSE, items |-> FALSE,
              fluids |-> FALSE, bot_count |-> FALSE, files |-> 0]
  /\ job = 0
  /\ dir = {}
  /\ jpc = "idle"
  /\ events = <<>>
  /\ running = TRUE
\* No schedule is being made and no Factorio process is run.
BenchIdle ==
  /\ bench = [run_order |-> "Grouped", runs |-> 0, save_files |-> <<>>]
  /\ schedule = <<>>
  /\ iter = [outer |-> 0, inner |-> 0, pc |-> "idle"]
ProcIdle ==
  /\ fn = [name |-> "none", pc |-> "idle", slept |-> 0]
  /\ child = "none"
  /\ new_save = FALSE
  /\ did_kill = FALSE
  /\ fret = <<"None">>
RunIdle == BenchIdle /\ ProcIdle
ExtIdle == CfgIdle /\ JobIdle /\ RunIdle
RestIdle == StrIdle /\ seen = <<"None">> /\ ExtIdle
lifeVars == <<file, ms, loaded, orig, call, ret, lastSet, nsets, pc>>
codecVars == <<tree, bytes, how, cpc, res, reenc>>

\* ----------------------------------------------------------------- decoder
\* Vec::with_capacity / HashMap::with_capacity of `count as usize` elements:
\* FALSE when the allocation fails (the process aborts).
with_capacity(count) == overcommit \/ count.hi < AllocLimitHi

RECURSIVE load_ptree(_, _)
RECURSIVE load_list_items(_, _, _, _, _)
RECURSIVE load_dict_items(_, _, _, _, _)

\* Mutant: the loop goes on past the declared count while bytes remain.
RECURSIVE load_list_items_Greedy(_, _, _, _, _)
load_list_items_Greedy(b, pos, count, i, arr) ==
  IF ~U32Gt(count, i) /\ pos >= Len(b) THEN Ok(PtList(arr), pos)
  ELSE
    LET key == read_ptree_string(b, pos)
    IN  IF ~IsOk(key) THEN key
        ELSE LET value == load_ptree(b, key.pos)
             IN  IF ~IsOk(value) THEN value
                 ELSE load_list_items_Greedy(b, value.pos, count, i + 1,
                                             Append(arr, value.val))

\* `for _ in 0..count` of the List arm, from iteration i with arr filled so far.
load_list_items(b, pos, count, i, arr) ==
  IF ~U32Gt(count, i) THEN Ok(PtList(arr), pos)
  ELSE
    LET key == read_ptree_string(b, pos)
    IN  IF ~IsOk(key) THEN key
        ELSE LET value == load_ptree(b, key.pos)
             IN  IF ~IsOk(value) THEN value
                 ELSE load_list_items(b, value.pos, count, i + 1,
                                      Append(arr, value.val))

\* Mutant: one padding byte is read between the count and the first key.
RECURSIVE load_dict_items_Padding(_, _, _, _, _)
load_dict_items_Padding(b, pos, count, i, dict) ==
  IF i = 0 /\ ~IsOk(read_u8(b, pos)) THEN read_u8(b, pos)
  ELSE IF ~U32Gt(count, i)
    THEN Ok(PtDictionary(dict), IF i = 0 THEN pos + 1 ELSE pos)
  ELSE
    LET key == read_ptree_string(b, IF i = 0 THEN pos + 1 ELSE pos)
    IN  IF ~IsOk(key) THEN key
        ELSE IF key.val = StrEmpty
          THEN Err("InvalidData", "Missing key in PropertyTree Dictionary",
                   <<>>, key.pos)
        ELSE LET value == load_ptree(b, key.pos)
             IN  IF ~IsOk(value) THEN value
                 ELSE load_dict_items_Padding(b, value.pos, count, i + 1,
                        HashMapInsert(dict, key.val, value.val))

\* `for _ in 0..count` of the Dictionary arm.
load_dict_items(b, pos, count, i, dict) ==
  IF ~U32Gt(count, i) THEN Ok(PtDictionary(dict), pos)
  ELSE
    LET key == read_ptree_string(b, pos)
    IN  IF ~IsOk(key) THEN key
        ELSE IF key.val = StrEmpty
          THEN Err("InvalidData", "Missing key in PropertyTree Dictionary",
                   <<>>, key.pos)
        ELSE LET value == load_ptree(b, key.pos)
             IN  IF ~IsOk(value) THEN value
                 ELSE load_dict_items(b, value.pos, count, i + 1,
                                      HashMapInsert(dict, key.val, value.val))

\* fn load_ptree
load_ptree(b, pos) ==
  LET type_val == read_u8(b, pos)
  IN  IF ~IsOk(type_val) THEN type_val
  ELSE
  LET is_any_type == read_u8(b, type_val.pos)
  IN  IF ~IsOk(is_any_type) THEN is_any_type
  ELSE
  LET tree_type == PropertyTreeTypeFrom(type_val.val)
      p == is_any_type.pos
  IN  CASE tree_type = "panic" ->
             Panic("Invalid PropertyTreeType", type_val.val, p)
        [] tree_type = "None" -> Ok(PtNone, p)
        [] tree_type = "Bool" ->
             LET value == read_u8(b, p)
             IN  IF IsOk(value) THEN Ok(PtBool(value.val # 0), value.pos)
                 ELSE value
        [] tree_type = "Number" ->
             LET value == read_8_le(b, p)
             IN  IF IsOk(value) THEN Ok(PtNumber(value.val), value.pos)
                 ELSE value
        [] tree_type = "String" ->
             LET value == read_ptree_string(b, p)
             IN  IF IsOk(value) THEN Ok(PtString(value.val), value.pos)
                 ELSE value
        [] tree_type = "List" ->
             LET count == read_u32_le(b, p)
             IN  IF ~IsOk(count) THEN count
                 ELSE IF ~with_capacity(count.val) THEN Abort(count.pos)
                 ELSE load_list_items(b, count.pos, count.val, 0, <<>>)
        [] tree_type = "Dictionary" ->
             LET count == read_u32_le(b, p)
             IN  IF ~IsOk(count) THEN count
                 ELSE IF ~with_capacity(count.val) THEN Abort(count.pos)
                 ELSE load_dict_items(b, count.pos, count.val, 0, {})
        [] tree_type = "SignedInteger" ->
             LET value == read_8_le(b, p)
             IN  IF IsOk(value) THEN Ok(PtSignedInteger(value.val), value.pos)
                 ELSE value
        [] tree_type = "UnsignedInteger" ->
             LET value == read_8_le(b, p)
             IN  IF IsOk(value) THEN Ok(PtUnsignedInteger(value.val), value.pos)
                 ELSE value

\* derive(PartialEq) of PropertyTreeData: `a == b`.
RECURSIVE PtEq(_, _)
PtEq(a, b) ==
  /\ a[1] = b[1]
  /\ CASE a[1] = "Number" -> F64Eq(a[2], b[2])
       [] a[1] = "List" ->
            /\ Len(a[2]) = Len(b[2])
            /\ \A i \in 1 .. Len(a[2]) : PtEq(a[2][i], b[2][i])
       [] a[1] = "Dictionary" ->
            /\ Cardinality(a[2]) = Cardinality(b[2])
            /\ \A e \in a[2] :
                 /\ HashMapContains(b[2], e[1])
                 /\ PtEq(e[2], HashMapGet(b[2], e[1])[2])
       [] OTHER -> a[2] = b[2]


\* -------------------------------------------------------------- ModSettings
\* ModSettingsScopeName::ALL
ALL == <<"Startup", "RuntimeGlobal", "RuntimePerUser">>
ScopeNames == {ALL[i] : i \in 1 .. Len(ALL)}

\* ModSettingsScopeName::as_str
as_str(scopename) ==
  CASE scopename = "Startup" -> StrStartup
    [] scopename = "RuntimeGlobal" -> StrRuntimeGlobal
    [] scopename = "RuntimePerUser" -> StrRuntimePerUser

\* ModSettingsValue
MsString(v) == <<"String", v>>
MsNumber(v) == <<"Number", v>>
MsInt(v) == <<"Int", v>>
MsBool(v) == <<"Bool", v>>
MsColor(r, g, b, a) == <<"Color", <<r, g, b, a>>>>

\* derive(PartialEq) of ModSettingsValue: `a == b`.
MsEq(a, b) ==
  /\ a[1] = b[1]
  /\ CASE a[1] = "Number" -> F64Eq(a[2], b[2])
       [] a[1] = "Color" -> \A i \in 1 .. 4 : F64Eq(a[2][i], b[2][i])
       [] OTHER -> a[2] = b[2]

\* ModSettingsData::default
ModSettingsDataDefault ==
  [startup |-> {}, runtime_global |-> {}, runtime_per_user |-> {}]

\* ModSettingsData::scope_ref
scope_ref(data, s) ==
  CASE s = "Startup" -> data.startup
    [] s = "RuntimeGlobal" -> data.runtime_global
    [] s = "RuntimePerUser" -> data.runtime_per_user

\* Mutant: the RuntimePerUser arm hands out the runtime_global map.
scope_mut_WrongField(data, s, map) ==
  CASE s = "Startup" -> [data EXCEPT !.startup = map]
    [] s = "RuntimeGlobal" -> [data EXCEPT !.runtime_global = map]
    [] s = "RuntimePerUser" -> [data EXCEPT !.runtime_global = map]

\* ModSettingsData::scope_mut followed by the assignment of `map` through it.
scope_mut(data, s, map) ==
  CASE s = "Startup" -> [data EXCEPT !.startup = map]
    [] s = "RuntimeGlobal" -> [data EXCEPT !.runtime_global = map]
    [] s = "RuntimePerUser" -> [data EXCEPT !.runtime_per_user = map]

\* The closure get_num of from_reader: Some(Number(v)) or the error.
get_num(d, key, name) ==
  LET e == HashMapGet(d, name)
  IN  IF e[1] = "Some" /\ e[2][1] = "Number" THEN Ok(e[2][2], 0)
      ELSE Err("InvalidData", "Dictionary missing number", <<key, name>>, 0)

\* Mutant: an UnsignedInteger is narrowed to Int.
parse_element_AcceptsUnsigned(key, element) ==
  CASE element[1] = "String" -> Ok(MsString(element[2]), 0)
    [] element[1] = "Number" -> Ok(MsNumber(element[2]), 0)
    [] element[1] \in {"SignedInteger", "UnsignedInteger"} ->
         Ok(MsInt(element[2]), 0)
    [] element[1] = "Bool" -> Ok(MsBool(element[2]), 0)
    [] element[1] = "Dictionary" ->
         LET r == get_num(element[2], key, StrR)
             g == get_num(element[2], key, StrG)
             b == get_num(element[2], key, StrB)
             a == get_num(element[2], key, StrA)
         IN  IF ~IsOk(r) THEN r
             ELSE IF ~IsOk(g) THEN g
             ELSE IF ~IsOk(b) THEN b
             ELSE IF ~IsOk(a) THEN a
             ELSE Ok(MsColor(r.val, g.val, b.val, a.val), 0)
    [] OTHER ->
         Err("InvalidData", "Unexpected type in ModSettings Tree", key, 0)

\* `let parsed = match element { .. }` of from_reader.
parse_element(key, element) ==
  CASE element[1] = "String" -> Ok(MsString(element[2]), 0)
    [] element[1] = "Number" -> Ok(MsNumber(element[2]), 0)
    [] element[1] = "SignedInteger" -> Ok(MsInt(element[2]), 0)
    [] element[1] = "Bool" -> Ok(MsBool(element[2]), 0)
    [] element[1] = "Dictionary" ->
         LET r == get_num(element[2], key, StrR)
             g == get_num(element[2], key, StrG)
             b == get_num(element[2], key, StrB)
             a == get_num(element[2], key, StrA)
         IN  IF ~IsOk(r) THEN r
             ELSE IF ~IsOk(g) THEN g
             ELSE IF ~IsOk(b) THEN b
             ELSE IF ~IsOk(a) THEN a
             ELSE Ok(MsColor(r.val, g.val, b.val, a.val), 0)
    [] OTHER ->
         Err("InvalidData", "Unexpected type in ModSettings Tree", key, 0)

RECURSIVE load_scope_entries(_, _)
\* `loadingscope.insert(key.clone(), parsed)` once `parsed` is known, then
\* the remaining entries; the error of `parsed` is returned as it is.
load_scope_insert(rest, loadingscope, key, parsed) ==
  IF ~IsOk(parsed) THEN parsed
  ELSE load_scope_entries(rest, HashMapInsert(loadingscope, key, parsed.val))

\* Mutant: an entry that is no wrapper with a "value" is skipped.
load_scope_entries_SkipsBadWrapper(entries, loadingscope) ==
  IF entries = <<>> THEN Ok(loadingscope, 0)
  ELSE
    LET key == Head(entries)[1]
        wrapper == Head(entries)[2]
    IN  IF wrapper[1] # "Dictionary"
          THEN load_scope_entries(Tail(entries), loadingscope)
        ELSE
          LET element == HashMapGet(wrapper[2], StrValue)
          IN  IF element[1] = "None"
                THEN load_scope_entries(Tail(entries), loadingscope)
              ELSE load_scope_insert(Tail(entries), loadingscope, key,
                                     parse_element(key, element[2]))

\* `for (key, wrapper) in scope_dict`, over the entries in iteration order.
load_scope_entries(entries, loadingscope) ==
  IF entries = <<>> THEN Ok(loadingscope, 0)
  ELSE
    LET key == Head(entries)[1]
        wrapper == Head(entries)[2]
    IN  IF wrapper[1] # "Dictionary"
          THEN Err("InvalidData", "Wrapper is not a dictionary", key, 0)
        ELSE
          LET element == HashMapGet(wrapper[2], StrValue)
          IN  IF element[1] = "None"
                THEN Err("InvalidData", "Missing 'value'", key, 0)
              ELSE load_scope_insert(Tail(entries), loadingscope, key,
                                     parse_element(key, element[2]))

RECURSIVE load_scopes(_, _, _, _)
\* The end of one round of `for scopename in ALL`: the entries of the scope
\* are in `scope` (or the error that stopped them), the next scope follows.
load_scopes_step(root, i, loading, scope, seed) ==
  IF ~IsOk(scope) THEN scope
  ELSE load_scopes(root, i + 1, scope_mut(loading, ALL[i], scope.val), seed)

\* Mutant: a scope that is missing or no Dictionary is left empty.
load_scopes_SkipsBadScope(root, i, loading, seed) ==
  IF i > Len(ALL) THEN Ok(loading, 0)
  ELSE
    LET scopename == ALL[i]
        scope_tree == HashMapGet(root, as_str(scopename))
    IN  IF scope_tree[1] = "None" \/ scope_tree[2][1] # "Dictionary"
          THEN load_scopes(root, i + 1, loading, seed)
        ELSE load_scopes_step(
               root, i, loading,
               load_scope_entries(HashMapIter(scope_tree[2][2], seed),
                                  scope_ref(loading, scopename)),
               seed)

\* `for scopename in ModSettingsScopeName::ALL`, from index i.
load_scopes(root, i, loading, seed) ==
  IF i > Len(ALL) THEN Ok(loading, 0)
  ELSE
    LET scopename == ALL[i]
        scope_tree == HashMapGet(root, as_str(scopename))
    IN  IF scope_tree[1] = "None"
          THEN Err("InvalidData", "Missing scope", as_str(scopename), 0)
        ELSE IF scope_tree[2][1] # "Dictionary"
          THEN Err("InvalidData", "Scope is not a dictionary",
                   as_str(scopename), 0)
        ELSE load_scopes_step(
               root, i, loading,
               load_scope_entries(HashMapIter(scope_tree[2][2], seed),
                                  scope_ref(loading, scopename)),
               seed)

\* MapVersion::from_reader
MapVersionFromReader(b, pos) == read_exact(b, pos, 9)

\* Mutant: the nine version bytes are written last to first.
MapVersionToBytes_Reversed(version) == Reverse(version)
\* MapVersion::to_bytes
MapVersionToBytes(version) == version

\* from_reader once the scopes are read: Ok(Self { version, settings }).
from_reader_scopes(version, loading, pos) ==
  IF ~IsOk(loading) THEN [loading EXCEPT !.pos = pos]
  ELSE Ok([version |-> version, settings |-> loading.val], pos)

\* Mutant: a root that is no Dictionary is read as a root without settings.
from_reader_root_AnyRoot(version, t, seed) ==
  IF ~IsOk(t) THEN t
  ELSE IF t.val[1] # "Dictionary"
    THEN from_reader_scopes(version, Ok(ModSettingsDataDefault, 0), t.pos)
  ELSE from_reader_scopes(
         version, load_scopes(t.val[2], 1, ModSettingsDataDefault, seed), t.pos)

\* from_reader once load_ptree has returned `t`: the root must be a
\* Dictionary, and the three scopes are read from it.
from_reader_root(version, t, seed) ==
  IF ~IsOk(t) THEN t
  ELSE IF t.val[1] # "Dictionary"
    THEN Err("InvalidData", "ModSettings root is not a dictionary", <<>>, t.pos)
  ELSE from_reader_scopes(
         version, load_scopes(t.val[2], 1, ModSettingsDataDefault, seed), t.pos)

\* ModSettings::from_reader on the bytes of the file; `seed` fixes the
\* iteration order of the decoded scope dictionaries.
from_reader(b, seed) ==
  LET version == MapVersionFromReader(b, 0)
  IN  IF ~IsOk(version) THEN version
      ELSE from_reader_root(version.val, load_ptree(b, version.pos), seed)

\* ModSettings::load_from_file (the file exists and is readable).
load_from_file(f, seed) == from_reader(f, seed)

\* Mutant: the None arm leaves the key in place.
set_NoRemove(self, scope, key, value) ==
  LET scope_map == scope_ref(self.settings, scope)
      old == HashMapGet(scope_map, key)
      new == IF value[1] = "Some" THEN HashMapInsert(scope_map, key, value[2])
             ELSE scope_map
  IN  [self |-> [self EXCEPT !.settings = scope_mut(self.settings, scope, new)],
       ret |-> old]

\* Mutant: the call returns the value it was given, not the previous one.
set_ReturnsNew(self, scope, key, value) ==
  LET scope_map == scope_ref(self.settings, scope)
      new == IF value[1] = "Some" THEN HashMapInsert(scope_map, key, value[2])
             ELSE HashMapRemove(scope_map, key)
  IN  [self |-> [self EXCEPT !.settings = scope_mut(self.settings, scope, new)],
       ret |-> value]

\* ModSettings::set: the new value of *self and the returned Option.
set(self, scope, key, value) ==
  LET scope_map == scope_ref(self.settings, scope)
      k == key
      old == HashMapGet(scope_map, k)
      new == IF value[1] = "Some" THEN HashMapInsert(scope_map, k, value[2])
             ELSE HashMapRemove(scope_map, k)
  IN  [self |-> [self EXCEPT !.settings = scope_mut(self.settings, scope, new)],
       ret |-> old]

\* Mutant: an Int is written as an UnsignedInteger.
value_to_ptree_IntAsUnsigned(value) ==
  CASE value[1] = "String" -> PtString(value[2])
    [] value[1] = "Number" -> PtNumber(value[2])
    [] value[1] = "Int" -> PtUnsignedInteger(value[2])
    [] value[1] = "Bool" -> PtBool(value[2])
    [] value[1] = "Color" ->
         PtDictionary({<<StrR, PtNumber(value[2][1])>>,
                       <<StrG, PtNumber(value[2][2])>>,
                       <<StrB, PtNumber(value[2][3])>>,
                       <<StrA, PtNumber(value[2][4])>>})

\* The `data` of one setting in to_ptree.
value_to_ptree(value) ==
  CASE value[1] = "String" -> PtString(value[2])
    [] value[1] = "Number" -> PtNumber(value[2])
    [] value[1] = "Int" -> PtSignedInteger(value[2])
    [] value[1] = "Bool" -> PtBool(value[2])
    [] value[1] = "Color" ->
         LET c0 == {}
             c1 == HashMapInsert(c0, StrR, PtNumber(value[2][1]))
             c2 == HashMapInsert(c1, StrG, PtNumber(value[2][2]))
             c3 == HashMapInsert(c2, StrB, PtNumber(value[2][3]))
             c4 == HashMapInsert(c3, StrA, PtNumber(value[2][4]))
         IN  PtDictionary(c4)

\* Mutant: the values are stored under their keys without the wrapper.
scope_to_ptree_NoWrapper(scope_map) ==
  {<<e[1], value_to_ptree(e[2])>> : e \in scope_map}

\* The scope_pt that to_ptree builds from one scope_map.
scope_to_ptree(scope_map) ==
  {<<e[1], PtDictionary(HashMapInsert({}, StrValue, value_to_ptree(e[2])))>> :
     e \in scope_map}

RECURSIVE to_ptree_scopes(_, _, _)
to_ptree_scopes(self, i, root) ==
  IF i > Len(ALL) THEN root
  ELSE to_ptree_scopes(
         self, i + 1,
         HashMapInsert(root, as_str(ALL[i]),
                       PtDictionary(scope_to_ptree(scope_ref(self.settings, ALL[i])))))

\* Mutant: the root starts with an entry that names no scope.
to_ptree_ExtraRootEntry(self) ==
  PtDictionary(to_ptree_scopes(self, 1, {<<StrValue, PtDictionary({})>>}))

\* ModSettings::to_ptree
to_ptree(self) == PtDictionary(to_ptree_scopes(self, 1, {}))

\* Mutant: the version bytes are not written.
save_bytes_NoVersion(self, seed) == save_ptree(to_ptree(self), seed)

\* ModSettings::save_bytes
save_bytes(self, seed) ==
  MapVersionToBytes(self.version) \o save_ptree(to_ptree(self), seed)

\* The value stored under (scope, key): settings.scope_ref(scope).get(key).
get(self, scope, key) == HashMapGet(scope_ref(self.settings, scope), key)

\* ------------------------------------------------- the settings-file caller
\* What the callers (sanitize, blueprint runners) do with one settings file:
\* load_from_file, set calls, save_to_file, and the load of the next job.
KeyA == StrA
KeyB == StrB
StrX == <<120>>
Color1 == MsColor(F64Half, F64Zero, F64OnePt5, F64NegZero)

Version1 == <<2, 0, 0, 0, 28, 0, 0, 0, 0>>
Version2 == <<1, 0, 1, 0, 110, 0, 3, 0, 1>>

\* Pieces of a settings file as the game writes it: a key, a Dictionary
\* header of n entries, and the {"value": ..} wrapper around a payload.
GameKey(k) == <<0, Len(k)>> \o k
GameDict(n) == <<5, 0, n, 0, 0, 0>>
GameWrapper(payload) == GameDict(1) \o GameKey(StrValue) \o payload

\* startup {a: Int 60, b: Bool true}, runtime-global {b: String "x"},
\* runtime-per-user {}.
File1 ==
  Version1 \o GameDict(3)
    \o GameKey(StrStartup) \o GameDict(2)
      \o GameKey(KeyA) \o GameWrapper(<<6, 0, 60, 0, 0, 0, 0, 0, 0, 0>>)
      \o GameKey(KeyB) \o GameWrapper(<<1, 0, 1>>)
    \o GameKey(StrRuntimeGlobal) \o GameDict(1)
      \o GameKey(KeyB) \o GameWrapper(<<3, 0, 0, 1, 120>>)
    \o GameKey(StrRuntimePerUser) \o GameDict(0)

\* runtime-global {a: Color{r 0.5, g 0, b 1.5, a -0}},
\* runtime-per-user {b: Number 1.5}, startup {}.
File2 ==
  Version2 \o GameDict(3)
    \o GameKey(StrRuntimeGlobal) \o GameDict(1)
      \o GameKey(KeyA)
      \o GameWrapper(GameDict(4)
           \o GameKey(StrB) \o <<2, 0, 0, 0, 0, 0, 0, 0, 248, 63>>
           \o GameKey(StrG) \o <<2, 0, 0, 0, 0, 0, 0, 0, 0, 0>>
           \o GameKey(StrR) \o <<2, 0, 0, 0, 0, 0, 0, 0, 224, 63>>
           \o GameKey(StrA) \o <<2, 0, 0, 0, 0, 0, 0, 0, 0, 128>>)
    \o GameKey(StrRuntimePerUser) \o GameDict(1)
      \o GameKey(KeyB) \o GameWrapper(<<2, 0, 0, 0, 0, 0, 0, 0, 248, 63>>)
    \o GameKey(StrStartup) \o GameDict(0)

\* The files on disk at the start: two the game wrote, and a truncated one.
InitialFiles == {File1, File2, SubSeq(File1, 1, 40)}

FileSeeds == 0 .. MaxFileSeed
SetKeys == {StrEmpty, KeyA, KeyB}
Slots == ScopeNames \X SetKeys
\* The set calls that are tried: every variant of ModSettingsValue, a key
\* that is present and one that is absent, a removal, and the empty key.
SetCalls ==
  {<<"Startup", KeyA, <<"Some", MsInt(I64(3600))>>>>,
   <<"Startup", KeyA, <<"None">>>>,
   <<"Startup", StrEmpty, <<"Some", MsBool(FALSE)>>>>,
   <<"RuntimeGlobal", KeyA, <<"Some", MsString(StrX)>>>>,
   <<"RuntimeGlobal", KeyA, <<"None">>>>,
   <<"RuntimeGlobal", KeyB, <<"Some", MsBool(FALSE)>>>>,
   <<"RuntimePerUser", KeyA, <<"Some", MsNumber(F64NaN)>>>>,
   <<"RuntimePerUser", KeyA, <<"Some", MsNumber(F64OnePt5)>>>>,
   <<"RuntimePerUser", KeyB, <<"Some", Color1>>>>,
   <<"RuntimePerUser", StrEmpty, <<"None">>>>}

NoCall == <<"", <<>>, <<"None">>>>

LifeInit ==
  /\ file \in InitialFiles
  /\ ms = <<"None">>
  /\ loaded = [st |-> "", val |-> <<>>]
  /\ orig = <<>>
  /\ call = NoCall
  /\ ret = <<"None">>
  /\ lastSet = [sk \in Slots |-> <<"untouched">>]
  /\ nsets = 0
  /\ pc = "start"

CodecIdle ==
  /\ tree = PtNone
  /\ bytes = <<>>
  /\ how = ""
  /\ cpc = "idle"
  /\ res = [st |-> "", val |-> <<>>, pos |-> 0]
  /\ reenc = <<>>

\* let mut ms = ModSettings::load_from_file(dat_file)?;
LoadFromFile(seed) ==
  /\ pc \in {"start", "saved"}
  /\ loaded' = Returned(load_from_file(file, seed))
  /\ IF loaded'.st = "Ok"
       THEN /\ ms' = <<"Some", loaded'.val>>
            /\ orig' = IF pc = "start" THEN loaded'.val ELSE orig
            /\ pc' = IF pc = "start" THEN "ready" ELSE "reloaded"
       ELSE /\ ms' = <<"None">>
            /\ orig' = orig
            /\ pc' = IF pc = "start" THEN "failed" ELSE "reload_failed"
  /\ nsets' = IF pc = "start" THEN 0 ELSE nsets
  /\ UNCHANGED <<file, call, ret, lastSet>>
  /\ UNCHANGED <<codecVars, overcommit, restVars>>

\* ms.set(scope, key, value);
Set(scope, key, value) ==
  /\ pc \in {"ready", "reloaded"}
  /\ nsets < MaxSets
  /\ LET r == set(ms[2], scope, key, value)
     IN  /\ ms' = <<"Some", r.self>>
         /\ ret' = r.ret
  /\ call' = <<scope, key, value>>
  /\ lastSet' = [lastSet EXCEPT ![<<scope, key>>] = value]
  /\ nsets' = nsets + 1
  /\ pc' = "ready"
  /\ UNCHANGED <<file, loaded, orig>>
  /\ UNCHANGED <<codecVars, overcommit, restVars>>

\* ms.save_to_file(dat_file)?;  (fs::write succeeds)
SaveToFile(seed) ==
  /\ pc = "ready"
  /\ file' = save_bytes(ms[2], seed)
  /\ pc' = "saved"
  /\ UNCHANGED <<ms, loaded, orig, call, ret, lastSet, nsets>>
  /\ UNCHANGED <<codecVars, overcommit, restVars>>

\* ---------------------------------------------------------- the codec alone
\* save_ptree and load_ptree applied to enumerated trees and to buffers made
\* from their encodings by cutting them short or changing one byte.
Leaves ==
  {PtNone, PtBool(TRUE), PtNumber(F64OnePt5), PtNumber(F64NaN),
   PtString(StrEmpty), PtString(StrA), PtSignedInteger(I64(-2)),
   PtUnsignedInteger(U64(3))}
Elems == {PtNone, PtBool(TRUE), PtString(StrA), PtNumber(F64NaN)}
DictKeys == {StrEmpty, StrA, StrB}

SeqsUpTo(S, n) == UNION {[1 .. k -> S] : k \in 0 .. n}
HashMapsUpTo(K, V, n) ==
  UNION {{{<<k, f[k]>> : k \in ks} : f \in [ks -> V]} :
           ks \in {q \in SUBSET K : Cardinality(q) <= n}}

Flat ==
  Leaves \cup {PtList(v) : v \in SeqsUpTo(Elems, MaxLen)}
         \cup {PtDictionary(d) : d \in HashMapsUpTo(DictKeys, Elems, MaxLen)}

RECURSIVE Nested(_)
Nested(d) ==
  IF d = 0 THEN Flat
  ELSE LET W == Nested(d - 1)
       IN  W \cup {PtList(<<t>>) : t \in W}
             \cup {PtDictionary({<<KeyA, t>>}) : t \in W}

Trees == Nested(MaxDepth)
Seeds == 0 .. MaxSeed
\* The values a changed byte takes.
DamageBytes == {0, 1, 9, 255}

LifeIdle ==
  /\ file = <<>>
  /\ ms = <<"None">>
  /\ loaded = [st |-> "", val |-> <<>>]
  /\ orig = <<>>
  /\ call = NoCall
  /\ ret = <<"None">>
  /\ lastSet = [sk \in Slots |-> <<"untouched">>]
  /\ nsets = 0
  /\ pc = "idle"

CodecInit ==
  /\ LifeIdle
  /\ RestIdle
  /\ tree \in Trees
  /\ bytes = <<>>
  /\ how = ""
  /\ cpc = "tree"
  /\ res = [st |-> "", val |-> <<>>, pos |-> 0]
  /\ reenc = <<>>
  /\ overcommit \in BOOLEAN

\* let bytes = save_ptree(&tree);
Encode(seed) ==
  /\ cpc = "tree"
  /\ bytes' = save_ptree(tree, seed)
  /\ how' = "encoded"
  /\ cpc' = "bytes"
  /\ UNCHANGED <<tree, res, reenc, overcommit, lifeVars, restVars>>

\* The buffer loses its tail: only its first n bytes reach the decoder.
Truncate(n) ==
  /\ cpc = "bytes"
  /\ how = "encoded"
  /\ tree \in Flat
  /\ n < Len(bytes)
  /\ bytes' = SubSeq(bytes, 1, n)
  /\ how' = "truncated"
  /\ UNCHANGED <<tree, cpc, res, reenc, overcommit, lifeVars, restVars>>

\* One byte of the buffer differs from what the encoder wrote.
Damage(i, v) ==
  /\ cpc = "bytes"
  /\ how = "encoded"
  /\ tree \in Flat
  /\ bytes[i] # v
  /\ bytes' = [bytes EXCEPT ![i] = v]
  /\ how' = "damaged"
  /\ UNCHANGED <<tree, cpc, res, reenc, overcommit, lifeVars, restVars>>

\* Other bytes follow the encoded node in the reader.
Suffixes == {<<0>>, <<1, 0, 0>>, <<5, 0, 1>>}
Extend(sfx) ==
  /\ cpc = "bytes"
  /\ how = "encoded"
  /\ bytes' = bytes \o sfx
  /\ how' = "extended"
  /\ UNCHANGED <<tree, cpc, res, reenc, overcommit, lifeVars, restVars>>

\* let res = load_ptree(&mut &bytes[..]);
Decode ==
  /\ cpc = "bytes"
  /\ res' = load_ptree(bytes, 0)
  /\ cpc' = "decoded"
  /\ UNCHANGED <<tree, bytes, how, reenc, overcommit, lifeVars, restVars>>

\* let reenc = save_ptree(&res?);
Reencode(seed) ==
  /\ cpc = "decoded"
  /\ IsOk(res)
  /\ reenc' = save_ptree(res.val, seed)
  /\ cpc' = "reencoded"
  /\ UNCHANGED <<tree, bytes, how, res, overcommit, lifeVars, restVars>>

CodecNext ==
  \/ \E seed \in Seeds : Encode(seed)
  \/ \E n \in 0 .. Len(bytes) : Truncate(n)
  \/ \E i \in 1 .. Len(bytes), v \in DamageBytes : Damage(i, v)
  \/ \E sfx \in Suffixes : Extend(sfx)
  \/ Decode
  \/ \E seed \in Seeds : Reencode(seed)

CodecSpec == CodecInit /\ [][CodecNext]_vars

Init ==
  /\ LifeInit
  /\ CodecIdle
  /\ RestIdle
  /\ overcommit \in BOOLEAN

Next ==
  \/ \E seed \in FileSeeds : LoadFromFile(seed)
  \/ \E c \in SetCalls : Set(c[1], c[2], c[3])
  \/ \E seed \in FileSeeds : SaveToFile(seed)

Spec == Init /\ [][Next]_vars

\* ------------------------------------------- the loader on composed files
\* load_from_file applied to files whose tree is enumerated shape by shape:
\* roots that are no Dictionary, scopes that are missing or no Dictionary,
\* wrappers that are no Dictionary or lack "value", and every kind of
\* inner value.
ColorTree ==
  PtDictionary({<<StrR, PtNumber(F64Half)>>, <<StrG, PtNumber(F64Zero)>>,
                <<StrB, PtNumber(F64OnePt5)>>, <<StrA, PtNumber(F64NegZero)>>})
\* The inner values a wrapper can hold under "value".
InnerShapes ==
  {PtString(StrX), PtString(StrEmpty), PtNumber(F64OnePt5), PtNumber(F64NaN),
   PtSignedInteger(I64(-2)), PtBool(TRUE), PtBool(FALSE), ColorTree,
   PtDictionary(ColorTree[2] \cup {<<StrValue, PtNone>>}),
   PtNone, PtList(<<>>), PtList(<<PtNumber(F64Half)>>),
   PtUnsignedInteger(U64(3)), PtDictionary({}),
   PtDictionary({e \in ColorTree[2] : e[1] # StrA}),
   PtDictionary({e \in ColorTree[2] : e[1] # StrR}
                  \cup {<<StrR, PtString(StrX)>>}),
   PtDictionary({e \in ColorTree[2] : e[1] # StrG}
                  \cup {<<StrG, PtSignedInteger(I64(1))>>})}
\* What a scope dictionary can hold under a setting key.
WrapperShapes ==
  {PtNone, PtString(StrValue), PtList(<<PtBool(TRUE)>>), PtDictionary({}),
   PtDictionary({<<StrA, PtBool(TRUE)>>}),
   PtDictionary({<<StrValue, PtBool(TRUE)>>, <<StrA, PtNone>>})}
    \cup {PtDictionary({<<StrValue, v>>}) : v \in InnerShapes}
\* What the root can hold under a scope key.
ScopeShapes ==
  {PtNone, PtList(<<>>), PtString(StrStartup)}
    \cup {PtDictionary(d) : d \in HashMapsUpTo({KeyA, KeyB}, WrapperShapes, 2)}
\* A few of them, for roots in which more than one scope varies.
FewScopeShapes ==
  {PtNone, PtDictionary({}),
   PtDictionary({<<KeyA, PtDictionary({<<StrValue, PtBool(TRUE)>>})>>}),
   PtDictionary({<<KeyA, PtDictionary({})>>}),
   PtDictionary({<<KeyB, PtDictionary({<<StrValue, PtNone>>})>>})}
\* A root Dictionary: a partial map from the scope keys (and one key that
\* names no scope) to what is stored under them.
RootDict(present, shape) == PtDictionary({<<k, shape[k]>> : k \in present})
ScopeKeys == {as_str(sc) : sc \in ScopeNames}
RootTrees ==
  {PtNone, PtBool(TRUE), PtString(StrStartup), PtList(<<>>),
   PtList(<<PtDictionary({})>>), PtSignedInteger(I64(1))}
    \cup {RootDict(ScopeKeys, [k \in ScopeKeys |->
                                 IF k = as_str(sc) THEN sh ELSE PtDictionary({})]) :
            sc \in ScopeNames, sh \in ScopeShapes}
    \cup UNION {{RootDict(present, f) : f \in [present -> FewScopeShapes]} :
                  present \in SUBSET ScopeKeys}
    \cup {RootDict(ScopeKeys \cup {KeyA},
                   [k \in ScopeKeys \cup {KeyA} |-> PtDictionary({})])}

LoadInit ==
  /\ file = <<>>
  /\ ms = <<"None">>
  /\ loaded = [st |-> "", val |-> <<>>]
  /\ orig = <<>>
  /\ call = NoCall
  /\ ret = <<"None">>
  /\ lastSet = [sk \in Slots |-> <<"untouched">>]
  /\ nsets = 0
  /\ pc = "compose"
  /\ RestIdle
  /\ tree \in RootTrees
  /\ bytes = <<>>
  /\ how = ""
  /\ cpc = "idle"
  /\ res = [st |-> "", val |-> <<>>, pos |-> 0]
  /\ reenc = <<>>
  /\ overcommit \in BOOLEAN

\* The settings file as it is found on disk: the version, then the tree
\* with the entries of each Dictionary in some order.
FileOnDisk(seed) ==
  /\ pc = "compose"
  /\ file' = Version1 \o save_ptree(tree, seed)
  /\ pc' = "start"
  /\ UNCHANGED <<ms, loaded, orig, call, ret, lastSet, nsets>>
  /\ UNCHANGED <<codecVars, overcommit, restVars>>

LoadNext ==
  \/ \E seed \in FileSeeds : FileOnDisk(seed)
  \/ \E seed \in FileSeeds : LoadFromFile(seed)

LoadSpec == LoadInit /\ [][LoadNext]_vars

\* ------------------------------------------------ load, save and load again
\* What sanitize does to a file it does not change: load_from_file, then
\* save_to_file with no set call between, then load_from_file of what was
\* written. The file found on disk may carry bytes after its root tree.
TrailingBytes == {<<>>, <<0>>, <<5, 0, 1>>}

\* The settings file as it is found on disk, with `tl` after the tree;
\* `bytes` keeps what was found.
FileOnDiskWithTail(seed, tl) ==
  /\ pc = "compose"
  /\ file' = Version2 \o save_ptree(tree, seed) \o tl
  /\ bytes' = file'
  /\ pc' = "start"
  /\ UNCHANGED <<ms, loaded, orig, call, ret, lastSet, nsets>>
  /\ UNCHANGED <<tree, how, cpc, res, reenc, overcommit, restVars>>

ReloadNext ==
  \/ \E seed \in FileSeeds, tl \in TrailingBytes : FileOnDiskWithTail(seed, tl)
  \/ \E seed \in FileSeeds : LoadFromFile(seed)
  \/ \E seed \in FileSeeds : SaveToFile(seed)

ReloadSpec == LoadInit /\ [][ReloadNext]_vars

\* ------------------------------------------ two files that fail to load
\* One file of each kind of failure of from_reader; after it has failed, a
\* second file is loaded, and the caller holds both errors.
RootIsList == PtList(<<PtDictionary({})>>)
NoRuntimeGlobal ==
  RootDict({StrStartup, StrRuntimePerUser},
           [k \in {StrStartup, StrRuntimePerUser} |-> PtDictionary({})])
BadWrapperFile ==
  RootDict(ScopeKeys,
           [k \in ScopeKeys |->
              IF k = StrStartup THEN PtDictionary({<<KeyA, PtNone>>})
              ELSE PtDictionary({})])
BadShapeFile ==
  RootDict(ScopeKeys,
           [k \in ScopeKeys |->
              IF k = StrStartup
                THEN PtDictionary(
                       {<<KeyA, PtDictionary({<<StrValue, PtNone>>})>>})
              ELSE PtDictionary({})])
SampleFailing == {RootIsList, NoRuntimeGlobal, BadWrapperFile, BadShapeFile}

\* The caller keeps the error of a sample file and turns to the file t.
NextFile(t) ==
  /\ pc = "failed"
  /\ seen = <<"None">>
  /\ tree \in SampleFailing
  /\ seen' = <<"Some", [tree |-> tree, err |-> loaded.val]>>
  /\ tree' = t
  /\ file' = <<>>
  /\ loaded' = [st |-> "", val |-> <<>>]
  /\ pc' = "compose"
  /\ UNCHANGED <<ms, orig, call, ret, lastSet, nsets>>
  /\ UNCHANGED <<bytes, how, cpc, res, reenc, overcommit, strVars, extVars>>

ErrNext ==
  \/ \E seed \in FileSeeds : FileOnDisk(seed)
  \/ \E seed \in FileSeeds : LoadFromFile(seed)
  \/ \E t \in SampleFailing : NextFile(t)

ErrSpec == LoadInit /\ [][ErrNext]_vars

\* ------------------------------------------------ strings and their length
\* save_string, read_ptree_string and read_packed_uint_8_32 applied to
\* enumerated lengths and strings, with other bytes following in the buffer.
PackedValues ==
  0 .. MaxPacked \cup {65535, 65536, 16777215, 16777216, 2147483647}
StringValues ==
  {StrEmpty, StrA, StrValue, <<195, 169>>}
    \cup {[i \in 1 .. n |-> 97 + (i % 26)] : n \in {254, 255, 256}}
Tails == {<<>>, <<0>>, <<255, 1>>}
\* Non-zero values of the flag byte of a string.
FlagBytes == {1, 2, 128, 255}

\* The variables of the other parts, which the string steps leave alone.
notStrVars == <<lifeVars, codecVars, overcommit, seen, extVars>>

StrInit ==
  /\ LifeIdle
  /\ CodecIdle
  /\ seen = <<"None">>
  /\ ExtIdle
  /\ overcommit \in BOOLEAN
  /\ num \in PackedValues
  /\ str \in StringValues
  /\ stail \in Tails
  /\ sbuf = <<>>
  /\ sres = [st |-> "", val |-> <<>>, pos |-> 0]
  /\ spc = "input"

\* The length as save_string writes it, followed by other bytes.
PackLen ==
  /\ spc = "input"
  /\ sbuf' = save_string_len(num) \o stail
  /\ spc' = "packed"
  /\ UNCHANGED <<num, str, stail, sres, notStrVars>>

\* let size = b.read_packed_uint_8_32()?;
ReadPacked ==
  /\ spc = "packed"
  /\ sres' = read_packed_uint_8_32(sbuf, 0)
  /\ spc' = "unpacked"
  /\ UNCHANGED <<num, str, stail, sbuf, notStrVars>>

\* result.extend_from_slice(&save_string(key)), followed by other bytes.
SaveString ==
  /\ spc = "input"
  /\ sbuf' = save_string(str) \o stail
  /\ spc' = "saved"
  /\ UNCHANGED <<num, str, stail, sres, notStrVars>>

\* A buffer whose first byte, the flag of a string, is the non-zero v.
FlagByte(v) ==
  /\ spc = "saved"
  /\ sbuf' = <<v>> \o Tail(sbuf)
  /\ spc' = "flagged"
  /\ UNCHANGED <<num, str, stail, sres, notStrVars>>

\* read_ptree_string(b)
ReadPtreeString ==
  /\ spc \in {"saved", "flagged"}
  /\ sres' = read_ptree_string(sbuf, 0)
  /\ spc' = IF spc = "saved" THEN "read" ELSE "read_flagged"
  /\ UNCHANGED <<num, str, stail, sbuf, notStrVars>>

StrNext ==
  \/ PackLen
  \/ ReadPacked
  \/ SaveString
  \/ \E v \in FlagBytes : FlagByte(v)
  \/ ReadPtreeString

StrSpec == StrInit /\ [][StrNext]_vars

\* ------------------------------------------------------- the configuration
\* main builds a Figment from the configuration file and the BELT_*
\* environment, extracts the command's section and overrides it with the
\* command line.  Of BenchmarkConfig the two u32 fields are modelled.
CfgNum(n) == <<"Num", n>>
CfgStr(s) == <<"Str", s>>
CfgDict(d) == <<"Dict", d>>
CfgKeys(d) == {kv[1] : kv \in d}
find_value(d, key) ==
  IF key \in CfgKeys(d)
  THEN <<"Some", (CHOOSE kv \in d : kv[1] = key)[2]>>
  ELSE <<"None">>

\* Figment::merge: the incoming value replaces the present one; two
\* dictionaries under one key are joined, the incoming keys replacing.
merge_dict(a, b) == {kv \in a : kv[1] \notin CfgKeys(b)} \cup b
merge(a, b) ==
  {kv \in a : kv[1] \notin CfgKeys(b)} \cup
  {<<kv[1],
     IF /\ kv[1] \in CfgKeys(a)
        /\ find_value(a, kv[1])[2][1] = "Dict"
        /\ kv[2][1] = "Dict"
     THEN CfgDict(merge_dict(find_value(a, kv[1])[2][2], kv[2][2]))
     ELSE kv[2]>> : kv \in b}

\* Env::prefixed("BELT_").split("__"): a variable is named here by the
\* parts of its name after the prefix; the parts are lower-cased into a key
\* path and the text of the value is parsed.
EnvLower ==
  [n \in {"BENCHMARK", "TICKS", "RUNS"} |->
     CASE n = "BENCHMARK" -> "benchmark"
       [] n = "TICKS" -> "ticks"
       [] n = "RUNS" -> "runs"]
EnvParse ==
  [t \in {"12000", "8", "8000", "abc"} |->
     CASE t = "12000" -> CfgNum(12000)
       [] t = "8" -> CfgNum(8)
       [] t = "8000" -> CfgNum(8000)
       [] t = "abc" -> CfgStr("abc")]
EnvData(e) ==
  {<<EnvLower[v[1][1]], EnvParse[v[2]]>> : v \in {w \in e : Len(w[1]) = 1}}
    \cup
  {<<EnvLower[s],
     CfgDict({<<EnvLower[v[1][2]], EnvParse[v[2]]>> :
                v \in {w \in e : Len(w[1]) = 2 /\ w[1][1] = s}})>> :
     s \in {w[1][1] : w \in {x \in e : Len(x[1]) = 2}}}

default_ticks == 6000
default_runs == 5
BenchmarkConfig_default == [ticks |-> default_ticks, runs |-> default_runs]

\* A u32 field of a structure: the serde default when the key is absent,
\* an error when the value is not an unsigned number of 32 bits.
deserialize_u32(d, key, default) ==
  LET v == find_value(d, key) IN
  IF v[1] = "None" THEN <<"Ok", default>>
  ELSE IF v[2][1] = "Num" /\ v[2][2] >= 0 THEN <<"Ok", v[2][2]>>
  ELSE <<"Err">>
deserialize_BenchmarkConfig(d) ==
  LET t == deserialize_u32(d, "ticks", default_ticks)
      r == deserialize_u32(d, "runs", default_runs)
  IN IF t[1] = "Ok" /\ r[1] = "Ok"
     THEN <<"Ok", [ticks |-> t[2], runs |-> r[2]]>>
     ELSE <<"Err">>
extract_inner(fig, section) ==
  LET v == find_value(fig, section) IN
  IF v[1] = "Some" /\ v[2][1] = "Dict"
  THEN deserialize_BenchmarkConfig(v[2][2])
  ELSE <<"Err">>
extract(fig) == deserialize_BenchmarkConfig(fig)
\* BenchmarkConfig::from_figment
from_figment(fig) ==
  IF extract_inner(fig, "benchmark")[1] = "Ok"
  THEN extract_inner(fig, "benchmark")
  ELSE extract(fig)
unwrap_or_default(r) == IF r[1] = "Ok" THEN r[2] ELSE BenchmarkConfig_default

create_figment(cf, e) ==
  merge(IF cf[1] = "Some" THEN merge({}, cf[2]) ELSE {}, EnvData(e))
create_figment_from_file(cf, e) ==
  IF cf[1] = "None" THEN <<"Err", "NotFound">>
  ELSE <<"Ok", merge(merge({}, cf[2]), EnvData(e))>>

\* The files, environments and command lines main is started with.
FileSections ==
  {{}} \cup
  {{<<"benchmark", CfgDict(d)>>} :
     d \in SUBSET {<<"ticks", CfgNum(5000)>>, <<"runs", CfgNum(3)>>}}
ConfigFiles ==
  {<<"None">>} \cup
  {<<"Some", top \cup sec>> :
     top \in {{}, {<<"ticks", CfgNum(7000)>>}}, sec \in FileSections}
EnvVars ==
  {<< <<"BENCHMARK", "TICKS">>, "12000">>,
   << <<"BENCHMARK", "TICKS">>, "abc">>,
   << <<"BENCHMARK", "RUNS">>, "8">>,
   << <<"TICKS">>, "8000">>}
Environments ==
  {e \in SUBSET EnvVars : \A v, w \in e : v[1] = w[1] => v = w}
CommandLines ==
  [config : {<<"None">>, <<"Some", "belt.toml">>},
   ticks : {<<"None">>, <<"Some", 300>>},
   runs : {<<"None">>, <<"Some", 2>>}]

CfgInit ==
  /\ LifeIdle
  /\ CodecIdle
  /\ StrIdle
  /\ seen = <<"None">>
  /\ JobIdle
  /\ RunIdle
  /\ overcommit = TRUE
  /\ config_file \in ConfigFiles
  /\ env \in Environments
  /\ cli \in CommandLines
  /\ figment = {}
  /\ benchmark_config = <<"None">>
  /\ mpc = "start"

notCfgVars ==
  <<lifeVars, codecVars, overcommit, strVars, seen, jobVars, runVars>>

\* main: the figment, from the file named by --config or from the file of
\* the configuration directory; a named file that is missing ends the run.
CreateFigment ==
  /\ mpc = "start"
  /\ IF cli.config[1] = "Some"
     THEN IF create_figment_from_file(config_file, env)[1] = "Ok"
          THEN /\ figment' = create_figment_from_file(config_file, env)[2]
               /\ mpc' = "figment"
          ELSE /\ figment' = figment
               /\ mpc' = "exit"
     ELSE /\ figment' = create_figment(config_file, env)
          /\ mpc' = "figment"
  /\ UNCHANGED <<config_file, env, cli, benchmark_config, notCfgVars>>

\* main, Commands::Benchmark: the configuration of the figment or the default.
BenchmarkFromFigment ==
  /\ mpc = "figment"
  /\ benchmark_config' = <<"Some", unwrap_or_default(from_figment(figment))>>
  /\ mpc' = "config"
  /\ UNCHANGED <<config_file, env, cli, figment, notCfgVars>>

\* main, Commands::Benchmark: the arguments given replace the fields.
cli_overrides(c, a) ==
  [ticks |-> IF a.ticks[1] = "Some" THEN a.ticks[2] ELSE c.ticks,
   runs |-> IF a.runs[1] = "Some" THEN a.runs[2] ELSE c.runs]
ApplyCommandLine ==
  /\ mpc = "config"
  /\ benchmark_config' = <<"Some", cli_overrides(benchmark_config[2], cli)>>
  /\ mpc' = "run"
  /\ UNCHANGED <<config_file, env, cli, figment, notCfgVars>>

CfgNext ==
  \/ CreateFigment
  \/ BenchmarkFromFigment
  \/ ApplyCommandLine

CfgSpec == CfgInit /\ [][CfgNext]_vars

\* ------------------------------------------------- the jobs of a command
\* sanitize::run with SanitizeRunner::run_all, and BlueprintRunner::run_all:
\* the calls on the settings file and on the Factorio executable, one step
\* per call, with the result of each call that can fail chosen freely.
JobConfigs ==
  {c \in [cmd : {"sanitize", "blueprint"}, mods_dir : BOOLEAN,
          items : BOOLEAN, fluids : BOOLEAN, bot_count : BOOLEAN,
          files : 1 .. MaxJobs] :
     IF c.cmd = "sanitize" THEN ~c.bot_count ELSE ~c.items /\ ~c.fluids}
CallResults == {"Ok", "Err"}

JobInit ==
  /\ LifeIdle
  /\ CodecIdle
  /\ StrIdle
  /\ CfgIdle
  /\ RunIdle
  /\ seen = <<"None">>
  /\ overcommit = TRUE
  /\ jcfg \in JobConfigs
  /\ job = 0
  /\ dir = {}
  /\ jpc = IF jcfg.cmd = "sanitize" THEN "run" ELSE "loop"
  /\ events = <<>>
  /\ running = TRUE

notJobVars ==
  <<lifeVars, codecVars, overcommit, strVars, seen, cfgVars, runVars>>

\* A call with `?`: the function goes on after Ok and returns the error.
after_call(r, next) == IF r = "Ok" THEN next ELSE "failed"
after_save_IgnoresError(r, next) == next
after_save(r, next) == after_call(r, next)

\* The set calls of sanitize::run and of a sanitize job.
sanitize_sets(c, j) ==
  << <<j, "set", "belt-sanitizer-blueprint-mode">>,
     <<j, "set", "belt-sanitizer-target-tick">> >>
    \o (IF c.items
        THEN << <<j, "set", "belt-sanitizer-production-items">> >> ELSE <<>>)
    \o (IF c.fluids
        THEN << <<j, "set", "belt-sanitizer-production-fluids">> >> ELSE <<>>)
\* The set calls of a blueprint job before and after the blueprint is read.
blueprint_sets_first(j) ==
  << <<j, "set", "belt-sanitizer-target-tick">>,
     <<j, "set", "belt-sanitizer-blueprint-mode">> >>
blueprint_sets_rest(c, j) ==
  << <<j, "set", "belt-sanitizer-blueprint-string">>,
     <<j, "set", "belt-sanitizer-blueprint-save-name">>,
     <<j, "set", "belt-sanitizer-blueprint-count">> >>
    \o (IF c.bot_count
        THEN << <<j, "set", "belt-sanitizer-blueprint-bot-count">> >>
        ELSE <<>>)

\* sanitize::run, with --mods-dir: load_from_file before the runner is made.
RunLoad ==
  /\ jpc = "run"
  /\ jcfg.cmd = "sanitize"
  /\ IF jcfg.mods_dir
     THEN \E r \in CallResults :
            /\ events' = Append(events, <<0, "load_from_file", r>>)
            /\ jpc' = after_call(r, "run_set")
     ELSE /\ events' = events
          /\ jpc' = "loop"
  /\ UNCHANGED <<jcfg, job, dir, running, notJobVars>>

RunSets ==
  /\ jpc = "run_set"
  /\ events' = events \o sanitize_sets(jcfg, 0)
  /\ jpc' = "run_save"
  /\ UNCHANGED <<jcfg, job, dir, running, notJobVars>>

RunSave ==
  /\ jpc = "run_save"
  /\ \E r \in CallResults :
       /\ events' = Append(events, <<0, "save_to_file", r>>)
       /\ jpc' = after_save(r, "loop")
  /\ UNCHANGED <<jcfg, job, dir, running, notJobVars>>

\* `if !running.load(Ordering::SeqCst)` at the top of the loop body.
shutdown_requested_Never(r) == FALSE
shutdown_requested(r) == ~r

\* SanitizeRunner::run_all: the next save file, unless shutdown was asked.
JobBegin ==
  /\ jpc = "loop"
  /\ jcfg.cmd = "sanitize"
  /\ IF shutdown_requested(running)
     THEN /\ jpc' = "done"
          /\ job' = job
     ELSE /\ job' = job + 1
          /\ jpc' = IF jcfg.mods_dir THEN "job_dir" ELSE "job_sync"
  /\ UNCHANGED <<jcfg, dir, events, running, notJobVars>>

\* Without --mods-dir Factorio is run with --sync-mods on the save file.
JobSync ==
  /\ jpc = "job_sync"
  /\ \E r \in CallResults :
       /\ events' = Append(events, <<job, "sync_mods_for_save", r>>)
       /\ jpc' = after_call(r, "job_dir")
  /\ UNCHANGED <<jcfg, job, dir, running, notJobVars>>

\* The mods directory of the configuration or the one find_mod_directory
\* finds; with one, load_from_file, without one the settings are left alone.
JobLoad ==
  /\ jpc = "job_dir"
  /\ \E found \in BOOLEAN :
       IF jcfg.mods_dir \/ found
       THEN \E r \in CallResults :
              /\ dir' = dir \cup {job}
              /\ events' = Append(events, <<job, "load_from_file", r>>)
              /\ jpc' = after_call(r, "job_set")
       ELSE /\ dir' = dir
            /\ events' = events
            /\ jpc' = "job_factorio"
  /\ UNCHANGED <<jcfg, job, running, notJobVars>>

JobSets ==
  /\ jpc = "job_set"
  /\ events' = events \o sanitize_sets(jcfg, job)
  /\ jpc' = "job_save"
  /\ UNCHANGED <<jcfg, job, dir, running, notJobVars>>

JobSave ==
  /\ jpc = "job_save"
  /\ \E r \in CallResults :
       /\ events' = Append(events, <<job, "save_to_file", r>>)
       /\ jpc' = after_save(r, "job_factorio")
  /\ UNCHANGED <<jcfg, job, dir, running, notJobVars>>

JobFactorio ==
  /\ jpc = "job_factorio"
  /\ \E r \in CallResults :
       /\ events' = Append(events, <<job, "run_for_ticks", r>>)
       /\ jpc' = after_call(r, "job_report")
  /\ UNCHANGED <<jcfg, job, dir, running, notJobVars>>

\* parser::report, then the next save file or the end of the loop.
JobReport ==
  /\ jpc = "job_report"
  /\ \E r \in CallResults :
       jpc' = after_call(r, IF job = jcfg.files THEN "done" ELSE "loop")
  /\ UNCHANGED <<jcfg, job, dir, events, running, notJobVars>>

\* BlueprintRunner::run_all: the next blueprint file, its name and prefix.
BpBegin ==
  /\ jpc = "loop"
  /\ jcfg.cmd = "blueprint"
  /\ job' = job + 1
  /\ \E r \in CallResults : jpc' = after_call(r, "bp_dir")
  /\ UNCHANGED <<jcfg, dir, events, running, notJobVars>>

\* With a mods directory load_from_file, without one NoModsDirectoryFound.
BpLoad ==
  /\ jpc = "bp_dir"
  /\ \E found \in BOOLEAN :
       IF jcfg.mods_dir \/ found
       THEN \E r \in CallResults :
              /\ dir' = dir \cup {job}
              /\ events' = Append(events, <<job, "load_from_file", r>>)
              /\ jpc' = after_call(r, "bp_set")
       ELSE /\ dir' = dir
            /\ events' = events
            /\ jpc' = "failed"
  /\ UNCHANGED <<jcfg, job, running, notJobVars>>

\* The set calls; reading the blueprint file between them can fail.
BpSets ==
  /\ jpc = "bp_set"
  /\ \E r \in CallResults :
       /\ events' = events \o blueprint_sets_first(job) \o
                      (IF r = "Ok" THEN blueprint_sets_rest(jcfg, job)
                       ELSE <<>>)
       /\ jpc' = after_call(r, "bp_save")
  /\ UNCHANGED <<jcfg, job, dir, running, notJobVars>>

BpSave ==
  /\ jpc = "bp_save"
  /\ \E r \in CallResults :
       /\ events' = Append(events, <<job, "save_to_file", r>>)
       /\ jpc' = after_save(r, "bp_factorio")
  /\ UNCHANGED <<jcfg, job, dir, running, notJobVars>>

BpFactorio ==
  /\ jpc = "bp_factorio"
  /\ \E r \in CallResults :
       /\ events' = Append(events, <<job, "run_for_ticks", r>>)
       /\ jpc' = after_call(r, "bp_check")
  /\ UNCHANGED <<jcfg, job, dir, running, notJobVars>>

\* The generated save is looked for and moved, then the next file.
BpCheck ==
  /\ jpc = "bp_check"
  /\ \E r \in CallResults :
       jpc' = after_call(r, IF job = jcfg.files THEN "done" ELSE "loop")
  /\ UNCHANGED <<jcfg, job, dir, events, running, notJobVars>>

\* CTRL+C while the command runs.
Interrupt ==
  /\ running
  /\ jpc \notin {"idle", "done", "failed"}
  /\ running' = FALSE
  /\ UNCHANGED <<jcfg, job, dir, jpc, events, notJobVars>>

JobNext ==
  \/ RunLoad
  \/ RunSets
  \/ RunSave
  \/ JobBegin
  \/ JobSync
  \/ JobLoad
  \/ JobSets
  \/ JobSave
  \/ JobFactorio
  \/ JobReport
  \/ BpBegin
  \/ BpLoad
  \/ BpSets
  \/ BpSave
  \/ BpFactorio
  \/ BpCheck
  \/ Interrupt

JobSpec == JobInit /\ [][JobNext]_vars

\* ------------------------------------------------- the benchmark schedule
\* BenchmarkRunner::create_execution_schedule, one step per push.
SaveNames == {"A", "B", "C"}
\* find_save_files lists the files of a directory: no path occurs twice.
SaveFileLists ==
  {l \in SeqsUpTo(SaveNames, MaxFiles) :
     \A i, j \in 1 .. Len(l) : l[i] = l[j] => i = j}
RunOrders == {"Grouped", "Sequential", "Random"}

SchedInit ==
  /\ LifeIdle
  /\ CodecIdle
  /\ StrIdle
  /\ CfgIdle
  /\ JobIdle
  /\ ProcIdle
  /\ seen = <<"None">>
  /\ overcommit = TRUE
  /\ bench \in [run_order : RunOrders, runs : 0 .. MaxRuns,
                save_files : SaveFileLists]
  /\ schedule = <<>>
  /\ iter = [outer |-> 0, inner |-> 0, pc |-> "loop"]

notBenchVars ==
  <<lifeVars, codecVars, overcommit, strVars, seen, cfgVars, jobVars,
    procVars>>

\* schedule.push(ExecutionJob { save_file, run_index })
push_job_NoRunIndex(sch, save_file, run_index) ==
  Append(sch, [save_file |-> save_file, run_index |-> 0])
push_job(sch, save_file, run_index) ==
  Append(sch, [save_file |-> save_file, run_index |-> run_index])

\* The indices after one pass of the inner loop over `count` values.
next_iter(it, count) ==
  IF it.inner + 1 < count
  THEN [it EXCEPT !.inner = it.inner + 1]
  ELSE [it EXCEPT !.outer = it.outer + 1, !.inner = 0]

\* Grouped and Random: for save_file in save_files, for run_index in 0..runs.
PushGrouped ==
  /\ iter.pc = "loop"
  /\ bench.run_order \in {"Grouped", "Random"}
  /\ iter.outer < Len(bench.save_files)
  /\ bench.runs > 0
  /\ schedule' = push_job(schedule, bench.save_files[iter.outer + 1],
                          iter.inner)
  /\ iter' = next_iter(iter, bench.runs)
  /\ UNCHANGED <<bench, notBenchVars>>

\* Sequential: for run_index in 0..runs, for save_file in save_files.
PushSequential ==
  /\ iter.pc = "loop"
  /\ bench.run_order = "Sequential"
  /\ iter.outer < bench.runs
  /\ Len(bench.save_files) > 0
  /\ schedule' = push_job(schedule, bench.save_files[iter.inner + 1],
                          iter.outer)
  /\ iter' = next_iter(iter, Len(bench.save_files))
  /\ UNCHANGED <<bench, notBenchVars>>

\* The loops are over.
EndLoops ==
  /\ iter.pc = "loop"
  /\ \/ bench.runs = 0
     \/ Len(bench.save_files) = 0
     \/ iter.outer >= (IF bench.run_order = "Sequential" THEN bench.runs
                       ELSE Len(bench.save_files))
  /\ iter' = [iter EXCEPT !.pc = IF bench.run_order = "Random"
                                 THEN "shuffle" ELSE "return"]
  /\ UNCHANGED <<bench, schedule, notBenchVars>>

Perms(n) ==
  {p \in [1 .. n -> 1 .. n] : \A i, j \in 1 .. n : p[i] = p[j] => i = j}
\* schedule.shuffle(&mut rng): any order of the same jobs.
Shuffle(p) ==
  /\ iter.pc = "shuffle"
  /\ schedule' = [i \in 1 .. Len(schedule) |-> schedule[p[i]]]
  /\ iter' = [iter EXCEPT !.pc = "return"]
  /\ UNCHANGED <<bench, notBenchVars>>

ReturnSchedule ==
  /\ iter.pc = "return"
  /\ iter' = [iter EXCEPT !.pc = "returned"]
  /\ UNCHANGED <<bench, schedule, notBenchVars>>

SchedNext ==
  \/ PushGrouped
  \/ PushSequential
  \/ EndLoops
  \/ \E p \in Perms(Len(schedule)) : Shuffle(p)
  \/ ReturnSchedule

SchedSpec == SchedInit /\ [][SchedNext]_vars

\* --------------------------------------------------- the Factorio process
\* FactorioExecutor::run_for_ticks and run_for_blueprint from the spawn of
\* the child process on; the child, the save file and CTRL+C move on their
\* own.
ExecutorFunctions == {"run_for_ticks", "run_for_blueprint"}

ProcInit ==
  /\ LifeIdle
  /\ CodecIdle
  /\ StrIdle
  /\ CfgIdle
  /\ JobIdle
  /\ BenchIdle
  /\ seen = <<"None">>
  /\ overcommit = TRUE
  /\ fn \in {[name |-> "run_for_ticks", pc |-> "spawn", slept |-> 0],
             [name |-> "run_for_blueprint", pc |-> "prepare", slept |-> 0]}
  /\ child = "none"
  /\ new_save \in (IF fn.name = "run_for_blueprint" THEN BOOLEAN ELSE {FALSE})
  /\ did_kill = FALSE
  /\ fret = <<"None">>

notProcVars ==
  <<lifeVars, codecVars, overcommit, strVars, seen, cfgVars, benchVars,
    jcfg, job, dir, jpc, events>>

\* Child::try_wait: Ok(None) while the child runs, Ok(Some(status)) once it
\* has exited, Err when the system call fails.
try_wait(c) ==
  (IF c = "running" THEN {<<"Ok", "None">>} ELSE {<<"Ok", "Some">>})
    \cup {<<"Err">>}
\* The condition of `while child.try_wait().is_err()`.
loop_condition(r) == r[1] = "Err"

\* Child::start_kill
start_kill(c) == IF c = "running" THEN "killed" ELSE c

\* run_for_blueprint writes the files of the benchmark-builder mod and
\* removes the save of an earlier run.
PrepareBlueprint ==
  /\ fn.pc = "prepare"
  /\ \E r \in {"Ok", "Err"} :
       IF r = "Ok"
       THEN /\ new_save' = FALSE
            /\ fn' = [fn EXCEPT !.pc = "spawn"]
            /\ fret' = fret
       ELSE /\ new_save' = new_save
            /\ fn' = [fn EXCEPT !.pc = "returned"]
            /\ fret' = <<"Err", "IoError">>
  /\ UNCHANGED <<child, did_kill, running, notProcVars>>

\* let mut child = cmd.spawn()?;
Spawn ==
  /\ fn.pc = "spawn"
  /\ \E r \in {"Ok", "Err"} :
       IF r = "Ok"
       THEN /\ child' = "running"
            /\ fn' = [fn EXCEPT !.pc = "while"]
            /\ fret' = fret
       ELSE /\ child' = child
            /\ fn' = [fn EXCEPT !.pc = "returned"]
            /\ fret' = <<"Err", "IoError">>
  /\ UNCHANGED <<new_save, did_kill, running, notProcVars>>

\* The loop condition is evaluated.
TryWait ==
  /\ fn.pc = "while"
  /\ \E r \in try_wait(child) :
       fn' = [fn EXCEPT !.pc = IF loop_condition(r) THEN "body" ELSE "wait"]
  /\ UNCHANGED <<child, new_save, did_kill, fret, running, notProcVars>>

\* The loop body: kill when the save file is there (run_for_blueprint) or
\* when shutdown was asked, else sleep for a second.
LoopBody ==
  /\ fn.pc = "body"
  /\ IF fn.name = "run_for_blueprint" /\ new_save
     THEN /\ did_kill' = TRUE
          /\ child' = start_kill(child)
          /\ fn' = [fn EXCEPT !.pc = "wait"]
     ELSE IF ~running
     THEN /\ did_kill' = did_kill
          /\ child' = start_kill(child)
          /\ fn' = [fn EXCEPT !.pc = "wait"]
     ELSE /\ did_kill' = did_kill
          /\ child' = child
          /\ fn' = [fn EXCEPT !.pc = "while",
                              !.slept = IF fn.slept < MaxPolls
                                        THEN fn.slept + 1 ELSE fn.slept]
  /\ UNCHANGED <<new_save, fret, running, notProcVars>>

\* child.wait_with_output().await, which lasts until the child has exited,
\* and the check of the exit status.
WaitWithOutput ==
  /\ fn.pc = "wait"
  /\ child \in {"exited_ok", "exited_fail", "killed"}
  /\ fret' = IF child = "exited_ok" \/ (fn.name = "run_for_blueprint"
                                         /\ did_kill)
             THEN <<"Ok", fn.name>>
             ELSE <<"Err", "FactorioProcessFailed">>
  /\ fn' = [fn EXCEPT !.pc = "returned"]
  /\ UNCHANGED <<child, new_save, did_kill, running, notProcVars>>

\* The child process ends by itself, with or without success.
ChildExits ==
  /\ child = "running"
  /\ child' \in {"exited_ok", "exited_fail"}
  /\ UNCHANGED <<fn, new_save, did_kill, fret, running, notProcVars>>

\* The server started by run_for_blueprint writes the expected save file.
SaveAppears ==
  /\ fn.name = "run_for_blueprint"
  /\ child = "running"
  /\ ~new_save
  /\ new_save' = TRUE
  /\ UNCHANGED <<fn, child, did_kill, fret, running, notProcVars>>

\* The CTRL+C task of main clears the flag.
CtrlC ==
  /\ running
  /\ fn.pc # "returned"
  /\ running' = FALSE
  /\ UNCHANGED <<fn, child, new_save, did_kill, fret, notProcVars>>

ProcNext ==
  \/ PrepareBlueprint
  \/ Spawn
  \/ TryWait
  \/ LoopBody
  \/ WaitWithOutput
  \/ ChildExits
  \/ SaveAppears
  \/ CtrlC

ProcSpec == ProcInit /\ [][ProcNext]_vars
\* The steps of the function itself are taken when they can be; the child,
\* the save file and CTRL+C are under no obligation.
ProcLive ==
  ProcSpec /\ WF_vars(PrepareBlueprint) /\ WF_vars(Spawn)
           /\ WF_vars(TryWait) /\ WF_vars(LoopBody)
           /\ WF_vars(WaitWithOutput)

\* ------------------------------------------------------------------ claims
\* Helpers of the statements below.
SlotOf(c) == <<c[1], c[2]>>
GetSlot(self, sk) == get(self, sk[1], sk[2])
HasNaN(v) ==
  \/ v[1] = "Number" /\ F64IsNaN(v[2])
  \/ v[1] = "Color" /\ \E i \in 1 .. 4 : F64IsNaN(v[2][i])
\* No set since the load has left a value under the empty key.
NoEmptyKeyStored == \A s \in ScopeNames : lastSet[<<s, StrEmpty>>][1] # "Some"
\* The last load was the load of the bytes a save wrote.
AfterReload == pc \in {"reloaded", "reload_failed"}
\* A step that is a set call.
IsSetStep == nsets' = nsets + 1

\* C1 as stated: for every scope s, key k and value v, after
\* set(s,k,Some(v)), save_to_file and load_from_file of the saved bytes, the
\* load succeeds and the value under (s,k) == v.
C1_RoundTripAnyKeyAnyValue ==
  AfterReload =>
    \A sk \in Slots :
      lastSet[sk][1] = "Some" =>
        /\ loaded.st = "Ok"
        /\ GetSlot(loaded.val, sk)[1] = "Some"
        /\ MsEq(GetSlot(loaded.val, sk)[2], lastSet[sk][2])

\* C1 amended: when no value was stored under the empty key, the load of
\* the saved bytes succeeds and the value under (s,k) is bit for bit the v
\* of the latest set(s,k,Some(v)); it is == v unless v holds a NaN.
C1_RoundTripNonEmptyKey ==
  (AfterReload /\ NoEmptyKeyStored) =>
    \A sk \in Slots :
      lastSet[sk][1] = "Some" =>
        /\ loaded.st = "Ok"
        /\ GetSlot(loaded.val, sk) = lastSet[sk]
        /\ (~HasNaN(lastSet[sk][2]) =>
              MsEq(GetSlot(loaded.val, sk)[2], lastSet[sk][2]))

\* C1 witness: a Color was set, saved and read back.
C1_Witness ==
  /\ pc = "reloaded"
  /\ call = <<"RuntimePerUser", KeyB, <<"Some", Color1>>>>
  /\ get(ms[2], "RuntimePerUser", KeyB) = <<"Some", Color1>>

\* C2 as stated: a set(s,k,x) call leaves every entry other than (s,k) as it
\* was, and after save_to_file and load_from_file those entries still hold
\* the same values.
C2_FrameThroughReload ==
  [][/\ IsSetStep =>
          \A sk \in Slots :
            sk # SlotOf(call') => GetSlot(ms'[2], sk) = GetSlot(ms[2], sk)
     /\ (pc = "saved" /\ pc' # "saved") =>
          /\ loaded'.st = "Ok"
          /\ \A sk \in Slots :
               sk # SlotOf(call) => GetSlot(ms'[2], sk) = GetSlot(ms[2], sk)
    ]_vars

\* C2 amended: a set(s,k,x) call leaves every entry other than (s,k) as it
\* was; after save_to_file and load_from_file those entries still hold the
\* same values provided no scope held a value under the empty key when it
\* was saved.
C2_FrameThroughReloadNonEmptyKey ==
  [][/\ IsSetStep =>
          \A sk \in Slots :
            sk # SlotOf(call') => GetSlot(ms'[2], sk) = GetSlot(ms[2], sk)
     /\ (pc = "saved" /\ pc' # "saved"
           /\ \A s \in ScopeNames : get(ms[2], s, StrEmpty)[1] = "None") =>
          /\ loaded'.st = "Ok"
          /\ \A sk \in Slots :
               sk # SlotOf(call) => GetSlot(ms'[2], sk) = GetSlot(ms[2], sk)
    ]_vars

\* C2 witness: the tick-like key was overwritten, the file saved and read
\* back, and the other key of the scope still holds the loaded value.
C2_Witness ==
  /\ pc = "reloaded"
  /\ call = <<"Startup", KeyA, <<"Some", MsInt(I64(3600))>>>>
  /\ get(ms[2], "Startup", KeyA) = <<"Some", MsInt(I64(3600))>>
  /\ get(ms[2], "Startup", KeyB) = get(orig, "Startup", KeyB)
  /\ get(orig, "Startup", KeyB)[1] = "Some"

\* C3: each scope holds at most one value per key, and a key touched by a
\* set is present with value v exactly when the latest set on it was
\* Some(v), absent when it was None.
C3_LatestSetWins ==
  ms[1] = "Some" =>
    /\ \A s \in ScopeNames :
         LET m == scope_ref(ms[2].settings, s)
         IN  Cardinality(HashMapKeys(m)) = Cardinality(m)
    /\ \A sk \in Slots :
         LET m == scope_ref(ms[2].settings, sk[1])
             here == {e \in m : e[1] = sk[2]}
         IN  /\ lastSet[sk][1] = "Some" => here = {<<sk[2], lastSet[sk][2]>>}
             /\ lastSet[sk][1] = "None" => here = {}

\* C3 witness: a key was inserted by one set and removed by the next.
C3_Witness ==
  /\ pc = "ready"
  /\ nsets = 2
  /\ call = <<"RuntimeGlobal", KeyA, <<"None">>>>
  /\ ret = <<"Some", MsString(StrX)>>
  /\ get(ms[2], "RuntimeGlobal", KeyA) = <<"None">>

\* The value (s,k) held before a set: what the latest earlier set left
\* there, or what the load found.
PrevValue(sk) ==
  IF lastSet[sk][1] = "untouched" THEN GetSlot(orig, sk) ELSE lastSet[sk]

\* C4: set returns the value previously stored under (scope,key), or
\* nothing if the key was absent; a set(..,None) on an absent key leaves
\* the settings unchanged.
C4_SetReturnsPrevious ==
  [][IsSetStep =>
       /\ ret' = PrevValue(SlotOf(call'))
       /\ (call'[3][1] = "None" /\ PrevValue(SlotOf(call'))[1] = "None") =>
            ms' = ms
    ]_vars

\* C4 witness: overwriting a loaded key returned the loaded value.
C4_Witness ==
  /\ call = <<"Startup", KeyA, <<"Some", MsInt(I64(3600))>>>>
  /\ ret = <<"Some", MsInt(I64(60))>>

\* C7: set never changes the 9 version bytes that load_from_file read, and
\* every save writes exactly those 9 bytes first.
C7_VersionKept ==
  pc \in {"ready", "saved", "reloaded", "reload_failed"} =>
    /\ Len(file) >= 9
    /\ SubSeq(file, 1, 9) = orig.version
    /\ (ms[1] = "Some" => ms[2].version = orig.version)

\* C7 witness: a file was saved after two set calls and begins with the
\* version of the loaded file.
C7_Witness ==
  /\ pc = "saved"
  /\ nsets = 2
  /\ SubSeq(file, 1, 9) = Version2
  /\ file \notin InitialFiles

RECURSIVE HasEmptyKey(_)
\* Some Dictionary of the tree has the empty string as a key.
HasEmptyKey(t) ==
  CASE t[1] = "List" -> \E i \in 1 .. Len(t[2]) : HasEmptyKey(t[2][i])
    [] t[1] = "Dictionary" ->
         \E e \in t[2] : e[1] = StrEmpty \/ HasEmptyKey(e[2])
    [] OTHER -> FALSE

RECURSIVE HasNaNNumber(_)
\* Some Number of the tree is a NaN.
HasNaNNumber(t) ==
  CASE t[1] = "Number" -> F64IsNaN(t[2])
    [] t[1] = "List" -> \E i \in 1 .. Len(t[2]) : HasNaNNumber(t[2][i])
    [] t[1] = "Dictionary" -> \E e \in t[2] : HasNaNNumber(e[2])
    [] OTHER -> FALSE

Decoded == cpc \in {"decoded", "reencoded"}

\* C5 as stated: for every tree t, decoding save_ptree(t) succeeds and
\* load_ptree(save_ptree(t)) == t.
C5_DecodeEncodeAnyTree ==
  (Decoded /\ how = "encoded") => (IsOk(res) /\ PtEq(res.val, tree))

\* C5 amended: for every tree t none of whose Dictionaries has an empty
\* key, decoding save_ptree(t) succeeds, consumes every byte and yields a
\* tree bit for bit identical to t; it is == t unless t holds a NaN Number.
C5_DecodeEncodeNoEmptyKey ==
  (Decoded /\ how = "encoded" /\ ~HasEmptyKey(tree)) =>
    /\ IsOk(res)
    /\ res.val = tree
    /\ res.pos = Len(bytes)
    /\ (~HasNaNNumber(tree) => PtEq(res.val, tree))

\* C5 witness: a Dictionary of two entries, one of them a List, came back
\* from its encoding.
C5_Witness ==
  /\ cpc = "decoded"
  /\ how = "encoded"
  /\ tree = PtList(<<PtDictionary({<<StrA, PtString(StrA)>>,
                                   <<StrB, PtBool(TRUE)>>})>>)
  /\ IsOk(res)
  /\ res.val = tree

\* C6: for the bytes of an encoded tree, re-encoding the decoded tree
\* reproduces the input byte for byte: save_ptree(load_ptree(bytes)) = bytes.
C6_ReencodeIdentity ==
  (cpc = "reencoded" /\ how = "encoded") => reenc = bytes

\* C8: decoding a node whose type tag byte is outside 0..7 returns the error
\* InvalidTypeTag carrying that byte, and never panics.
C8_InvalidTagIsError ==
  (Decoded /\ Len(bytes) >= 2 /\ bytes[1] > 7) =>
    /\ res.st = "Err"
    /\ res.val.kind = "InvalidTypeTag"
    /\ res.val.arg = bytes[1]

\* The buffer ends before the payload of its root node is complete: it was
\* cut short, or it is a List / Dictionary header that declares entries and
\* holds none.
EndsEarly ==
  \/ how = "truncated" /\ ~HasEmptyKey(tree)
  \/ /\ Len(bytes) = 6
     /\ bytes[1] \in {4, 5}
     /\ \E i \in 3 .. 6 : bytes[i] # 0

\* C9: decoding an input that ends before a node's payload is complete
\* returns the UnexpectedEof error; it never panics and returns no value.
C9_TruncatedIsEof ==
  (Decoded /\ EndsEarly) =>
    (res.st = "Err" /\ res.val.kind = "UnexpectedEof")

\* The buffer is a Dictionary node with an empty key: the encoding of a
\* Dictionary that has one, or a Dictionary header that declares entries
\* and whose first entry has the empty-key flag set.
EmptyKeyInput ==
  \/ /\ how = "encoded"
     /\ tree[1] = "Dictionary"
     /\ \E e \in tree[2] : e[1] = StrEmpty
  \/ /\ Len(bytes) >= 7
     /\ bytes[1] = 5
     /\ \E i \in 3 .. 6 : bytes[i] # 0
     /\ bytes[7] # 0

\* C10: decoding a Dictionary node one of whose entries has an empty key
\* returns the missing-key error, and no tree.
C10_EmptyKeyIsError ==
  (Decoded /\ EmptyKeyInput) =>
    /\ res.st = "Err"
    /\ res.val.msg = "Missing key in PropertyTree Dictionary"

\* ---- load_from_file on composed files (LoadSpec)
\* load_from_file has returned.
LoadReturned == pc \in {"ready", "failed"}
\* The load failed with the given message, and the caller has no ModSettings.
LoadFailedWith(msgs) ==
  /\ loaded.st = "Err"
  /\ loaded.val.kind = "InvalidData"
  /\ loaded.val.msg \in msgs
  /\ ms = <<"None">>
\* What the root holds under the key of scope sc.
ScopeTree(sc) == HashMapGet(tree[2], as_str(sc))
\* The scope is missing from the root, or is no Dictionary.
ScopeDefective(sc) ==
  ScopeTree(sc)[1] = "None" \/ ScopeTree(sc)[2][1] # "Dictionary"
\* The four colour fields are Numbers.
IsColorShape(v) ==
  /\ v[1] = "Dictionary"
  /\ \A name \in {StrR, StrG, StrB, StrA} :
       LET f == HashMapGet(v[2], name)
       IN  f[1] = "Some" /\ f[2][1] = "Number"
\* What is wrong with the entry `w` of a scope dictionary, if anything.
DefectOf(w) ==
  IF w[1] # "Dictionary" THEN "wrapper"
  ELSE LET v == HashMapGet(w[2], StrValue)
       IN  IF v[1] = "None" THEN "wrapper"
           ELSE IF v[2][1] \in {"String", "Number", "SignedInteger", "Bool"}
                     \/ IsColorShape(v[2])
                  THEN "ok"
           ELSE "shape"
\* The scope is a Dictionary all of whose entries load.
ScopeClean(sc) ==
  /\ ~ScopeDefective(sc)
  /\ \A e \in ScopeTree(sc)[2][2] : DefectOf(e[2]) = "ok"
\* The scope is the first, in the order of ALL, that does not load.
FirstUnclean(sc) ==
  /\ ~ScopeClean(sc)
  /\ \A i \in 1 .. Len(ALL) :
       (\E j \in i + 1 .. Len(ALL) : ALL[j] = sc) => ScopeClean(ALL[i])

\* C11: load_from_file on a file whose decoded root node is not a Dictionary
\* returns the root-is-not-a-dictionary error and produces no ModSettings.
C11_RootNotDictionary ==
  (LoadReturned /\ tree[1] # "Dictionary") =>
    LoadFailedWith({"ModSettings root is not a dictionary"})

\* C11 witness: a file whose root is a List was loaded and refused.
C11_Witness ==
  /\ pc = "failed"
  /\ tree = PtList(<<PtDictionary({})>>)
  /\ loaded.val.msg = "ModSettings root is not a dictionary"

\* C12: when the root Dictionary lacks a scope key or holds something other
\* than a Dictionary under it, load_from_file fails and produces no
\* ModSettings; the error is the scope error and names that scope when it
\* is the first scope, in the order startup, runtime-global,
\* runtime-per-user, that does not load. No empty scope is substituted.
C12_MissingScope ==
  (LoadReturned /\ tree[1] = "Dictionary") =>
    \A sc \in ScopeNames :
      ScopeDefective(sc) =>
        /\ loaded.st = "Err"
        /\ ms = <<"None">>
        /\ FirstUnclean(sc) =>
             /\ LoadFailedWith({"Missing scope", "Scope is not a dictionary"})
             /\ loaded.val.arg = as_str(sc)
             /\ (loaded.val.msg = "Missing scope") = (ScopeTree(sc)[1] = "None")

\* C12 witness: a root without "runtime-global", whose other scopes load,
\* was refused with the error naming runtime-global.
C12_Witness ==
  /\ pc = "failed"
  /\ tree[1] = "Dictionary"
  /\ ScopeTree("RuntimeGlobal")[1] = "None"
  /\ ScopeClean("Startup")
  /\ ScopeTree("Startup")[2][2] # {}
  /\ loaded.val.msg = "Missing scope"
  /\ loaded.val.arg = StrRuntimeGlobal

\* The entries of scope sc in the file (the scope is a Dictionary).
ScopeEntries(sc) == ScopeTree(sc)[2][2]
\* The inner value of a wrapper that has one.
InnerOf(w) == HashMapGet(w[2], StrValue)[2]
\* The first of r, g, b, a that the Dictionary v lacks as a Number.
FirstMissingNumber(v) ==
  LET names == <<StrR, StrG, StrB, StrA>>
      bad(i) == LET f == HashMapGet(v[2], names[i])
                IN  f[1] = "None" \/ f[2][1] # "Number"
  IN  names[CHOOSE i \in 1 .. 4 : bad(i) /\ \A j \in 1 .. i - 1 : ~bad(j)]
\* The load failed with the error of the defective entry e, naming its key.
ErrorNamesEntry(e) ==
  CASE DefectOf(e[2]) = "wrapper" ->
         /\ LoadFailedWith({IF e[2][1] # "Dictionary"
                              THEN "Wrapper is not a dictionary"
                              ELSE "Missing 'value'"})
         /\ loaded.val.arg = e[1]
    [] DefectOf(e[2]) = "shape" ->
         IF InnerOf(e[2])[1] = "Dictionary"
           THEN /\ LoadFailedWith({"Dictionary missing number"})
                /\ loaded.val.arg = <<e[1], FirstMissingNumber(InnerOf(e[2]))>>
           ELSE /\ LoadFailedWith({"Unexpected type in ModSettings Tree"})
                /\ loaded.val.arg = e[1]
    [] OTHER -> FALSE
\* Every scope of the root is a Dictionary.
AllScopesPresent ==
  tree[1] = "Dictionary" /\ \A sc \in ScopeNames : ~ScopeDefective(sc)
\* The entries of scope sc with the given defect.
Defective(sc, what) == {e \in ScopeEntries(sc) : DefectOf(e[2]) = what}

\* C13: when an entry of a scope Dictionary is no Dictionary, or is a
\* Dictionary without the key "value", load_from_file fails and produces no
\* ModSettings: the entry is never skipped. The error names an entry of the
\* first scope that does not load, with the error of that entry's defect; it
\* is the wrapper error naming the key when that entry is the only
\* defective one of the scope.
C13_MissingValueWrapper ==
  (LoadReturned /\ AllScopesPresent) =>
    \A sc \in ScopeNames :
      \A e \in Defective(sc, "wrapper") :
        /\ loaded.st = "Err"
        /\ ms = <<"None">>
        /\ FirstUnclean(sc) =>
             /\ \E d \in ScopeEntries(sc) : ErrorNamesEntry(d)
             /\ (Defective(sc, "wrapper") \cup Defective(sc, "shape") = {e}) =>
                  ErrorNamesEntry(e)

\* C13 witness: a scope with one good entry and one wrapper without
\* "value" was refused with the error naming the key of the latter.
C13_Witness ==
  /\ pc = "failed"
  /\ AllScopesPresent
  /\ ScopeEntries("RuntimeGlobal") =
       {<<KeyA, PtDictionary({<<StrValue, PtBool(TRUE)>>})>>,
        <<KeyB, PtDictionary({<<StrA, PtBool(TRUE)>>})>>}
  /\ loaded.val.msg = "Missing 'value'"
  /\ loaded.val.arg = KeyB

\* The ModSettingsValue the claim gives for an inner value that narrows.
Narrowed(v) ==
  CASE v[1] = "String" -> <<"String", v[2]>>
    [] v[1] = "Number" -> <<"Number", v[2]>>
    [] v[1] = "SignedInteger" -> <<"Int", v[2]>>
    [] v[1] = "Bool" -> <<"Bool", v[2]>>
    [] v[1] = "Dictionary" ->
         <<"Color", <<HashMapGet(v[2], StrR)[2][2], HashMapGet(v[2], StrG)[2][2],
                      HashMapGet(v[2], StrB)[2][2], HashMapGet(v[2], StrA)[2][2]>>>>

\* C14: when every entry loads, each scope of the loaded ModSettings holds
\* exactly the keys of the file's scope, each with its inner value narrowed
\* String to String, Number to Number, SignedInteger to Int, Bool to Bool
\* and a Dictionary with Number fields r, g, b, a to Color. Any other inner
\* value makes the load fail; the error names an entry of the first scope
\* that does not load, and is the shape error naming the key when that
\* entry is the only defective one of the scope.
C14_Narrowing ==
  (LoadReturned /\ AllScopesPresent) =>
    /\ (\A sc \in ScopeNames : ScopeClean(sc)) =>
         /\ loaded.st = "Ok"
         /\ ms = <<"Some", loaded.val>>
         /\ \A sc \in ScopeNames :
              scope_ref(loaded.val.settings, sc) =
                {<<e[1], Narrowed(InnerOf(e[2]))>> : e \in ScopeEntries(sc)}
    /\ \A sc \in ScopeNames :
         \A e \in Defective(sc, "shape") :
           /\ loaded.st = "Err"
           /\ ms = <<"None">>
           /\ (FirstUnclean(sc)
                 /\ Defective(sc, "wrapper") \cup Defective(sc, "shape") = {e}) =>
                ErrorNamesEntry(e)

\* C14 witness: a scope holding a Color and an Int was loaded.
C14_Witness ==
  /\ pc = "ready"
  /\ ScopeEntries("Startup") =
       {<<KeyA, PtDictionary({<<StrValue, ColorTree>>})>>,
        <<KeyB, PtDictionary({<<StrValue, PtSignedInteger(I64(-2))>>})>>}
  /\ get(ms[2], "Startup", KeyA) = <<"Some", Color1>>
  /\ get(ms[2], "Startup", KeyB) = <<"Some", MsInt(I64(-2))>>

\* ---- strings and their length (StrSpec)
\* The packed form the claim gives for the value n.
PackedForm(n) ==
  IF n <= 254 THEN <<n>>
  ELSE <<255, n % 256, (n \div 256) % 256, (n \div 65536) % 256,
         (n \div 16777216) % 256>>

\* C15: a value 0..=254 is written as one byte equal to the value, a value
\* >= 255 as the byte 255 followed by its 4 little-endian bytes;
\* read_packed_uint_8_32 returns the value and consumes exactly 1 or 5 bytes.
C15_PackedUint ==
  /\ spc \in {"packed", "unpacked"} => sbuf = PackedForm(num) \o stail
  /\ spc = "unpacked" =>
       /\ sres.st = "Ok"
       /\ sres.val.hi * 65536 + sres.val.lo = num
       /\ sres.pos = IF num <= 254 THEN 1 ELSE 5

\* C15 witness: 255, the least value of the long form, was written as
\* 255 255 0 0 0 and read back, the bytes after it left in the buffer.
C15_Witness ==
  /\ spc = "unpacked"
  /\ num = 255
  /\ sbuf = <<255, 255, 0, 0, 0, 255, 1>>
  /\ sres.val = AsU32(255)
  /\ sres.pos = 5

\* C16: the empty string is written as the single byte 1, a non-empty
\* string as the byte 0, the packed length in bytes and the bytes; reading
\* it back gives the string; a string whose flag byte is non-zero is read as
\* the empty string, and no byte after the flag is consumed.
C16_StringFlag ==
  /\ spc \in {"saved", "read"} =>
       sbuf = (IF str = <<>> THEN <<1>>
               ELSE <<0>> \o PackedForm(Len(str)) \o str) \o stail
  /\ spc = "read" =>
       /\ sres.st = "Ok"
       /\ sres.val = str
       /\ sres.pos = Len(sbuf) - Len(stail)
  /\ (spc = "read_flagged" /\ sbuf[1] # 0) =>
       /\ sres.st = "Ok"
       /\ sres.val = <<>>
       /\ sres.pos = 1

\* C16 witness: the flag byte 128 in front of a length and 256 bytes was
\* read as the empty string, one byte consumed.
C16_Witness ==
  /\ spc = "read_flagged"
  /\ sbuf[1] = 128
  /\ Len(str) = 256
  /\ Len(sbuf) > 256
  /\ sres.val = <<>>
  /\ sres.pos = 1

\* ---- the layout of a saved file (Spec)
\* The PropertyTree value the claim gives for a setting value.
ValueTree(v) ==
  CASE v[1] = "String" -> <<"String", v[2]>>
    [] v[1] = "Number" -> <<"Number", v[2]>>
    [] v[1] = "Int" -> <<"SignedInteger", v[2]>>
    [] v[1] = "Bool" -> <<"Bool", v[2]>>
    [] v[1] = "Color" ->
         <<"Dictionary",
           {<<StrR, <<"Number", v[2][1]>>>>, <<StrG, <<"Number", v[2][2]>>>>,
            <<StrB, <<"Number", v[2][3]>>>>, <<StrA, <<"Number", v[2][4]>>>>}>>
\* The root the claim describes for the settings `self`.
LayoutRoot(self) ==
  <<"Dictionary",
    {<<name,
       <<"Dictionary",
         {<<e[1], <<"Dictionary", {<<StrValue, ValueTree(e[2])>>}>>>> :
            e \in (CASE name = StrStartup -> self.settings.startup
                     [] name = StrRuntimeGlobal -> self.settings.runtime_global
                     [] name = StrRuntimePerUser ->
                          self.settings.runtime_per_user)}>>>> :
       name \in {StrStartup, StrRuntimeGlobal, StrRuntimePerUser}}>>
\* Some key of the settings is the empty string.
SomeEmptyKey(self) ==
  \E sc \in ScopeNames : get(self, sc, StrEmpty)[1] = "Some"

\* C17: the bytes written by save_to_file are the 9 version bytes followed
\* by the encoding of one root Dictionary: the three scope keys, each a
\* Dictionary with one entry per setting key, each of those a Dictionary
\* with the single key "value" holding the setting's value (Int as
\* SignedInteger, Color as a Dictionary of the Numbers r, g, b, a). Nothing
\* follows the root.
C17_SaveLayout ==
  pc = "saved" =>
    /\ SubSeq(file, 1, 9) = ms[2].version
    /\ \E seed \in FileSeeds :
         SubSeq(file, 10, Len(file)) = save_ptree(LayoutRoot(ms[2]), seed)
    /\ ~SomeEmptyKey(ms[2]) =>
         LET t == load_ptree(file, 9)
         IN  /\ t.st = "Ok"
             /\ t.val = LayoutRoot(ms[2])
             /\ t.pos = Len(file)

\* C17 witness: settings holding an Int and a Color were saved.
C17_Witness ==
  /\ pc = "saved"
  /\ get(ms[2], "Startup", KeyA) = <<"Some", MsInt(I64(3600))>>
  /\ get(ms[2], "RuntimePerUser", KeyB) = <<"Some", Color1>>
  /\ Len(file) > 100

\* ---- the errors of two files (ErrSpec)
\* The failure class of a sample file.
SampleClass(t) ==
  CASE t = RootIsList -> "RootNotDictionary"
    [] t = NoRuntimeGlobal -> "MissingScope"
    [] t = BadWrapperFile -> "MissingValueWrapper"
    [] t = BadShapeFile -> "UnsupportedSettingShape"
\* The failure class of the file being loaded, when it has one defect class.
FileClass ==
  IF tree[1] # "Dictionary" THEN "RootNotDictionary"
  ELSE IF \E sc \in ScopeNames : FirstUnclean(sc) /\ ScopeDefective(sc)
    THEN "MissingScope"
  ELSE IF \E sc \in ScopeNames :
            FirstUnclean(sc) /\ Defective(sc, "shape") = {}
    THEN "MissingValueWrapper"
  ELSE IF \E sc \in ScopeNames :
            FirstUnclean(sc) /\ Defective(sc, "wrapper") = {}
    THEN "UnsupportedSettingShape"
  ELSE "several"

\* C18: two files that fail to load for different failure classes give
\* the caller error values of different kinds.
C18_DistinctErrorKinds ==
  (LoadReturned /\ loaded.st = "Err" /\ seen[1] = "Some"
     /\ FileClass \notin {"several", SampleClass(seen[2].tree)}) =>
    loaded.val.kind # seen[2].err.kind

\* ---- the configuration of a benchmark run (CfgSpec)
EnvSet(name) == \E v \in env : v[1] = name
EnvValue(name) == EnvParse[(CHOOSE v \in env : v[1] = name)[2]]
FileBenchmark ==
  IF config_file[1] = "Some" /\ "benchmark" \in CfgKeys(config_file[2])
  THEN find_value(config_file[2], "benchmark")[2][2]
  ELSE {}
FieldDefault(f) == IF f = "ticks" THEN default_ticks ELSE default_runs
FieldEnvName(f) ==
  IF f = "ticks" THEN <<"BENCHMARK", "TICKS">> ELSE <<"BENCHMARK", "RUNS">>
\* The value the priority order gives the field f.
ByPriority(f) ==
  IF cli[f][1] = "Some" THEN cli[f][2]
  ELSE IF EnvSet(FieldEnvName(f)) THEN EnvValue(FieldEnvName(f))[2]
  ELSE IF f \in CfgKeys(FileBenchmark) THEN find_value(FileBenchmark, f)[2][2]
  ELSE FieldDefault(f)
\* The field's environment variable, when set, holds a number.
EnvUsable(f) ==
  EnvSet(FieldEnvName(f)) => EnvValue(FieldEnvName(f))[1] = "Num"

\* C19: when the benchmark starts, every field has the value of the command
\* line when given there, otherwise of its BELT_* environment variable when
\* set, otherwise of the configuration file when present there, otherwise
\* the built-in default; a source overrides only the fields it sets.
C19_PriorityOrder ==
  mpc = "run" =>
    \A f \in {"ticks", "runs"} :
      EnvUsable(f) => benchmark_config[2][f] = ByPriority(f)

\* ---- the settings file in a job (JobSpec)
\* The calls of job j on the settings file before position i of the history.
SettingsCallsBefore(j, i) ==
  SelectSeq(SubSeq(events, 1, i - 1),
            LAMBDA e : e[1] = j /\ e[2] # "sync_mods_for_save")
IsRun(i) == events[i][2] = "run_for_ticks"
IsInvocation(i) == events[i][2] \in {"sync_mods_for_save", "run_for_ticks"}
NumberOfLoads ==
  Cardinality({i \in 1 .. Len(events) : events[i][2] = "load_from_file"})

\* C20 as stated: in a job with a mods directory the Factorio executable is
\* invoked only after the job's save_to_file returned Ok, and load_from_file
\* is called once per job, so never more often than jobs have begun.
C20_OncePerJob ==
  /\ \A i \in 1 .. Len(events) :
       (IsInvocation(i) /\ events[i][1] \in dir) =>
         \E k \in 1 .. i - 1 :
           events[k] = <<events[i][1], "save_to_file", "Ok">>
  /\ NumberOfLoads <= job

\* C20, amended: when run_for_ticks is called in a job with a mods
\* directory, the calls of that job on the settings file are exactly one
\* load_from_file that returned Ok, then set calls, then one save_to_file
\* that returned Ok; sanitize::run makes the same calls once more before
\* the first job when --mods-dir is given.
C20_SettingsThenFactorio ==
  /\ \A i \in 1 .. Len(events) :
       (IsRun(i) /\ events[i][1] \in dir) =>
         LET j == events[i][1]
             n == Len(SettingsCallsBefore(j, i))
         IN /\ n >= 3
            /\ SettingsCallsBefore(j, i)[1] = <<j, "load_from_file", "Ok">>
            /\ SettingsCallsBefore(j, i)[n] = <<j, "save_to_file", "Ok">>
            /\ \A k \in 2 .. n - 1 : SettingsCallsBefore(j, i)[k][2] = "set"
  /\ NumberOfLoads <=
       Cardinality(dir) + (IF jcfg.cmd = "sanitize" /\ jcfg.mods_dir
                           THEN 1 ELSE 0)
\* Both save files of a sanitize command with --mods-dir were run.
C20_Witness ==
  /\ jpc = "done"
  /\ jcfg.cmd = "sanitize"
  /\ jcfg.mods_dir
  /\ job = 2
  /\ dir = {1, 2}
  /\ \A j \in {1, 2} :
       \E i \in 1 .. Len(events) : events[i] = <<j, "run_for_ticks", "Ok">>

\* ---- a node followed by other bytes (CodecSpec)
\* C21: decoding save_ptree(t) followed by other bytes succeeds when no
\* Dictionary of t has an empty key, and a successful decode returns t and
\* leaves the reader at the first of those bytes: exactly the bytes of the
\* node's encoding were consumed.
C21_ConsumesOwnBytes ==
  (Decoded /\ how = "extended") =>
    /\ ~HasEmptyKey(tree) => IsOk(res)
    /\ IsOk(res) =>
         /\ res.val = tree
         /\ res.pos = Len(save_ptree(tree, 0))
         /\ SubSeq(bytes, res.pos + 1, Len(bytes)) \in Suffixes
\* C21 witness: a List inside a List was decoded with three bytes after it.
C21_Witness ==
  /\ cpc = "decoded"
  /\ how = "extended"
  /\ tree = PtList(<<PtList(<<PtString(StrA), PtNone>>)>>)
  /\ IsOk(res)
  /\ res.pos = Len(bytes) - 3

\* ---- the layout of a Dictionary node (CodecSpec)
\* The bytes of one entry: the key as a string, then the child.
EntryBytes(e, seed) == save_string(e[1]) \o save_ptree(e[2], seed)
\* C22: a Dictionary without an empty key is encoded as the bytes 5, 0, the
\* number of entries in four little-endian bytes, and from the seventh byte
\* on the entries, each a key (flag 0, length, bytes) followed by its
\* child, with no byte between the count and the first key; load_ptree
\* reads these bytes back into the same Dictionary and consumes all of them.
C22_DictionaryLayout ==
  (cpc # "tree" /\ how = "encoded" /\ tree[1] = "Dictionary"
     /\ ~HasEmptyKey(tree)) =>
    /\ SubSeq(bytes, 1, 6) = <<5, 0, Cardinality(tree[2]), 0, 0, 0>>
    /\ tree[2] = {} => Len(bytes) = 6
    /\ tree[2] # {} =>
         \E e \in tree[2] :
           /\ SubSeq(bytes, 7, 8 + Len(e[1])) = <<0, Len(e[1])>> \o e[1]
           /\ bytes[9 + Len(e[1])] = TypeAsU8(e[2][1])
           /\ \E seed \in Seeds :
                SubSeq(bytes, 7, 6 + Len(EntryBytes(e, seed)))
                  = EntryBytes(e, seed)
    /\ Decoded => (IsOk(res) /\ res.val = tree /\ res.pos = Len(bytes))
\* C22 witness: a Dictionary of two entries was encoded and decoded.
C22_Witness ==
  /\ cpc = "decoded"
  /\ how = "encoded"
  /\ tree = PtDictionary({<<StrA, PtBool(TRUE)>>, <<StrB, PtString(StrA)>>})
  /\ Len(bytes) = 20
  /\ IsOk(res)

\* ---- the benchmark schedule (SchedSpec)
Job(f, r) == [save_file |-> f, run_index |-> r]
NumFiles == Len(bench.save_files)
\* C23: the schedule returned has runs x |save_files| jobs and holds every
\* pair (save file, run index below runs) exactly once; Grouped keeps the
\* runs of a save together and the saves in input order, Sequential goes
\* round by round through the saves in input order, Random is some order of
\* the same jobs.
C23_Schedule ==
  iter.pc = "returned" =>
    /\ Len(schedule) = bench.runs * NumFiles
    /\ \A i \in 1 .. NumFiles : \A r \in 0 .. bench.runs - 1 :
         Cardinality({k \in 1 .. Len(schedule) :
                        schedule[k] = Job(bench.save_files[i], r)}) = 1
    /\ bench.run_order = "Grouped" =>
         \A k \in 1 .. Len(schedule) :
           schedule[k] = Job(bench.save_files[((k - 1) \div bench.runs) + 1],
                             (k - 1) % bench.runs)
    /\ bench.run_order = "Sequential" =>
         \A k \in 1 .. Len(schedule) :
           schedule[k] = Job(bench.save_files[((k - 1) % NumFiles) + 1],
                             (k - 1) \div NumFiles)
\* C23 witness: two saves and two runs in Sequential order give A,B,A,B.
C23_Witness ==
  /\ iter.pc = "returned"
  /\ bench.run_order = "Sequential"
  /\ schedule = <<Job("A", 0), Job("B", 0), Job("A", 1), Job("B", 1)>>

\* ---- shutdown between two save files (JobSpec)
\* C24: when SanitizeRunner::run_all finds the running flag false at the
\* start of an iteration it returns Ok at once: that save file and the ones
\* after it get no load_from_file, no set, no save_to_file and no Factorio
\* call, then and ever after.
C24_StopsOnShutdown ==
  /\ [](( jcfg.cmd = "sanitize" /\ jpc = "done" /\ job < jcfg.files) =>
          /\ ~running
          /\ \A i \in 1 .. Len(events) : events[i][1] <= job)
  /\ [][/\ (jcfg.cmd = "sanitize" /\ jpc = "loop" /\ ~running) =>
             (jpc' = "done" /\ events' = events /\ job' = job)
        /\ jpc = "done" => (jpc' = "done" /\ events' = events)
       ]_vars
\* C24 witness: CTRL+C came during the first of two save files; the first
\* was run and the second was not begun.
C24_Witness ==
  /\ jcfg.cmd = "sanitize"
  /\ jcfg.files = 2
  /\ jpc = "done"
  /\ job = 1
  /\ ~running
  /\ events[Len(events)] = <<1, "run_for_ticks", "Ok">>

\* ---- shutdown while Factorio runs (ProcSpec)
\* C25: when the running flag is false while the child started by
\* run_for_ticks still runs, run_for_ticks is in its polling loop, where the
\* next pass kills the child; it is not waiting for the child to end by
\* itself.
C25_KillsOnShutdown ==
  (fn.name = "run_for_ticks" /\ child = "running" /\ ~running) =>
    fn.pc \in {"while", "body"}

\* ---- the save file of a blueprint (ProcLive)
\* C26: once the expected save file exists while the server runs,
\* run_for_blueprint eventually returns, and it returns Ok with the path of
\* the new save although the killed server exits without success.
C26_ReturnsOnceSaveExists ==
  (fn.name = "run_for_blueprint" /\ new_save /\ child = "running")
    ~> (fn.pc = "returned" /\ fret[1] = "Ok")

\* ---- saving twice (Spec)
\* C27: save is deterministic: the bytes just written by save_to_file are
\* the bytes that any other save_bytes call on the same, unmodified
\* ModSettings value produces.
C27_SaveDeterministic ==
  pc = "saved" => \A seed \in FileSeeds : save_bytes(ms[2], seed) = file

\* ---- a file that is loaded, saved and loaded again (ReloadSpec)
\* C28: when a file that load_from_file accepted is saved with no set call
\* and loaded again, the second load succeeds and yields the version and
\* the three scope mappings of the first load.
C28_ReloadSame ==
  (pc \in {"reloaded", "reload_failed"} /\ nsets = 0) =>
    /\ pc = "reloaded"
    /\ loaded.st = "Ok"
    /\ ms[2].version = orig.version
    /\ \A sc \in ScopeNames :
         scope_ref(ms[2].settings, sc) = scope_ref(orig.settings, sc)

\* C28 witness: a file holding a Color and trailing bytes was loaded, saved
\* and loaded again.
C28_Witness ==
  /\ pc = "reloaded"
  /\ nsets = 0
  /\ Len(bytes) > Len(file)
  /\ \E sc \in ScopeNames :
       get(ms[2], sc, KeyA) =
         <<"Some", MsColor(F64Half, F64Zero, F64OnePt5, F64NegZero)>>

\* ---- what a save leaves out (ReloadSpec)
\* The keys of the Dictionary `d`.
KeysOf(d) == HashMapKeys(d[2])
\* The wrappers stored in the scopes of the root `root`.
WrappersOf(root) ==
  UNION {{e[2] : e \in sc[2][2]} : sc \in root[2]}
\* The root of the file found on disk had an entry, a wrapper entry or a
\* Color field that the loader does not read.
FoundExtraRootEntry == KeysOf(tree) # ScopeKeys
FoundExtraWrapperEntry ==
  \E w \in WrappersOf(tree) : KeysOf(w) # {StrValue}
FoundExtraColorField ==
  \E w \in WrappersOf(tree) :
    LET v == HashMapGet(w[2], StrValue)[2]
    IN  v[1] = "Dictionary" /\ KeysOf(v) # {StrR, StrG, StrB, StrA}
FoundTrailingBytes ==
  load_ptree(bytes, 9).pos < Len(bytes)

\* C29: the file written by save holds, after the version, one root
\* Dictionary with exactly the three scope keys, every setting in a wrapper
\* whose only key is "value", every Color with exactly the fields r, g, b
\* and a, and no byte after the root, whatever else the loaded file held.
C29_SaveDropsExtras ==
  pc = "saved" =>
    LET t == load_ptree(file, 9)
    IN  /\ t.st = "Ok"
        /\ t.pos = Len(file)
        /\ t.val[1] = "Dictionary"
        /\ KeysOf(t.val) = ScopeKeys
        /\ \A sc \in t.val[2] : sc[2][1] = "Dictionary"
        /\ \A w \in WrappersOf(t.val) :
             /\ w[1] = "Dictionary"
             /\ KeysOf(w) = {StrValue}
             /\ LET v == HashMapGet(w[2], StrValue)[2]
                IN  v[1] = "Dictionary" =>
                      KeysOf(v) = {StrR, StrG, StrB, StrA}

\* C29 witness: a file with a fifth Color field and bytes after its root
\* was loaded and saved.
C29_Witness ==
  /\ pc = "saved"
  /\ FoundExtraColorField
  /\ FoundTrailingBytes


\* ---- the decoder on any input (CodecSpec)
\* C30: on every finite input load_ptree comes to an end by returning a
\* tree or an error, having read no further than the end of the input,
\* whatever count the input declares.
C30_ReturnsTreeOrError ==
  Decoded => (res.st \in {"Ok", "Err"} /\ res.pos <= Len(bytes))

====
